---- MODULE Spec2Model ----
(***************************************************************************)
(* Turn Resolution Engine of iag-runner: the dice ledger (rules/core.py),  *)
(* the protocol registry and router (gm_os/protocols.py, gm_os/router.py)  *)
(* and the turn pipeline (rules/turn.py), as a state machine over one      *)
(* persisted session and its character.                                    *)
(*                                                                         *)
(* Conventions.  A Python Optional is a sequence of length 0 or 1: None is *)
(* <<>> and a present value x is <<x>>.  Python strings are TLA+ strings;  *)
(* the few string tests the code makes (substring, lower, strip) are       *)
(* tabulated for the texts the model draws.                                *)
(***************************************************************************)
EXTENDS Integers, Sequences, FiniteSets, TLC

\* the sessions of the ledger check and the status ledger of the status check
VARIABLES
  first,        \* ledger check: a SessionState of rules/core.py
  second,       \* ledger check: another SessionState made with the same seed
  calls,        \* ledger check: the calls made on first, in order
  returned,     \* ledger check: what each call on first returned
  echoed,       \* ledger check: what each call repeated on second returned
  status_ledger, \* status check: a combatant's statuses
  status_call,  \* effects check: the last call on the ledger and its return
  fight,        \* combat check: the combatants, their dice and the last result
  world,        \* two-session check: the database, the cache and the turns in flight
  memory,       \* compaction check: the session metadata promote_memories works on
  request       \* client check: a call of the OllamaClient and the replies it got

(* ------------------------------ bounds -------------------------------- *)
\* largest session seed drawn by InitReplay
MaxSeed == 1
\* largest actions resource a character starts with
MaxActions == 1
\* mutating turns are accepted while the session holds at most this many
\* persisted effects (log entries, notes, created records, bumped indices)
MaxTurns == 1
\* the replay specification accepts turns while the turn log is at most this long
MaxLog == 3

None == <<>>
Some(x) == <<x>>
IsNone(o) == Len(o) = 0
Get(o) == o[1]

(* ------------------- random.Random (Mersenne Twister) ------------------ *)
\* The top 8 bits of the first 32 output words of random.Random(seed),
\* seed = 0..63 (row seed+1), as CPython's generator produces them.
RngWordTable ==
  <<
    <<216, 98, 194, 227, 107, 10, 66, 247, 130, 124, 103, 235, 200, 212, 77, 247, 122, 91, 149, 228, 232, 55, 129, 35, 72, 35, 193, 24, 158, 204, 64, 252>>,
    <<34, 145, 216, 205, 195, 16, 65, 30, 126, 194, 115, 120, 166, 97, 201, 53, 24, 124, 7, 228, 213, 99, 110, 155, 195, 196, 0, 178, 114, 68, 184, 205>>,
    <<244, 220, 242, 217, 14, 23, 21, 92, 213, 43, 188, 207, 171, 218, 78, 64, 155, 54, 155, 9, 148, 174, 40, 255, 110, 163, 100, 205, 185, 220, 254, 130>>,
    <<60, 151, 139, 33, 94, 234, 154, 121, 160, 148, 16, 155, 3, 232, 214, 120, 66, 141, 59, 49, 254, 183, 120, 138, 214, 140, 121, 101, 163, 220, 38, 59>>,
    <<60, 77, 26, 184, 101, 122, 39, 23, 17, 5, 102, 140, 234, 74, 204, 253, 195, 15, 56, 133, 137, 92, 70, 199, 44, 211, 27, 67, 54, 241, 237, 6>>,
    <<159, 65, 189, 91, 203, 176, 241, 215, 189, 166, 236, 135, 7, 215, 119, 198, 241, 63, 166, 13, 230, 40, 28, 95, 120, 222, 63, 97, 139, 26, 146, 63>>,
    <<203, 146, 210, 20, 124, 195, 66, 9, 0, 37, 169, 150, 120, 247, 194, 188, 95, 81, 197, 5, 69, 125, 205, 50, 186, 223, 105, 233, 137, 138, 174, 24>>,
    <<82, 242, 38, 101, 166, 12, 18, 210, 137, 24, 93, 149, 14, 232, 129, 54, 9, 22, 111, 107, 17, 61, 23, 141, 108, 15, 211, 144, 31, 242, 57, 161>>,
    <<58, 94, 246, 96, 32, 49, 180, 11, 21, 35, 63, 207, 255, 129, 53, 102, 164, 7, 117, 124, 116, 99, 126, 146, 49, 229, 212, 103, 22, 124, 59, 194>>,
    <<118, 156, 95, 68, 35, 47, 221, 173, 1, 86, 128, 118, 229, 154, 20, 85, 141, 239, 157, 179, 10, 186, 97, 43, 180, 242, 115, 243, 185, 108, 40, 43>>,
    <<146, 8, 109, 123, 147, 3, 52, 118, 208, 125, 210, 71, 167, 207, 41, 8, 133, 125, 83, 19, 63, 243, 243, 190, 255, 92, 11, 107, 220, 35, 154, 90>>,
    <<115, 221, 143, 219, 236, 199, 119, 115, 130, 218, 150, 48, 47, 205, 131, 121, 161, 157, 203, 47, 24, 114, 77, 36, 23, 137, 207, 227, 177, 162, 10, 152>>,
    <<121, 68, 168, 135, 170, 89, 36, 97, 2, 255, 95, 123, 70, 164, 207, 117, 176, 221, 153, 58, 142, 0, 169, 159, 37, 250, 112, 94, 41, 86, 231, 53>>,
    <<66, 74, 175, 232, 175, 205, 217, 227, 47, 166, 59, 170, 37, 222, 57, 164, 187, 47, 33, 18, 136, 216, 54, 190, 75, 7, 110, 32, 214, 175, 155, 255>>,
    <<27, 157, 179, 193, 166, 134, 240, 63, 69, 188, 65, 74, 187, 18, 168, 115, 77, 119, 175, 223, 101, 100, 199, 232, 30, 67, 57, 222, 230, 80, 91, 206>>,
    <<247, 53, 2, 133, 188, 9, 40, 233, 252, 61, 4, 14, 225, 206, 174, 37, 219, 177, 255, 94, 61, 29, 86, 119, 181, 91, 71, 100, 67, 88, 58, 239>>,
    <<92, 120, 123, 72, 106, 58, 114, 1, 104, 218, 168, 182, 66, 60, 162, 56, 2, 75, 77, 208, 85, 170, 36, 243, 190, 154, 79, 5, 202, 56, 244, 154>>,
    <<133, 106, 206, 77, 245, 93, 74, 44, 196, 180, 180, 138, 169, 71, 28, 234, 6, 63, 98, 208, 191, 107, 64, 220, 128, 205, 81, 163, 216, 175, 241, 185>>,
    <<46, 31, 169, 114, 85, 61, 50, 243, 125, 160, 126, 46, 122, 75, 117, 227, 67, 50, 64, 230, 177, 30, 83, 133, 172, 195, 201, 44, 221, 247, 241, 207>>,
    <<173, 11, 200, 229, 133, 30, 130, 51, 100, 88, 255, 135, 74, 149, 37, 152, 66, 27, 66, 105, 83, 247, 68, 213, 27, 197, 83, 229, 79, 5, 145, 158>>,
    <<231, 185, 175, 201, 196, 225, 231, 38, 66, 172, 162, 217, 231, 25, 223, 83, 146, 231, 43, 6, 105, 104, 254, 19, 26, 32, 81, 121, 243, 148, 115, 105>>,
    <<42, 107, 176, 107, 162, 72, 122, 215, 55, 253, 202, 121, 206, 246, 131, 46, 129, 135, 60, 201, 0, 3, 94, 238, 149, 109, 17, 37, 203, 192, 59, 235>>,
    <<245, 232, 35, 62, 6, 156, 255, 114, 47, 179, 30, 189, 166, 224, 88, 202, 227, 20, 59, 68, 245, 12, 81, 249, 153, 45, 238, 141, 175, 187, 236, 110>>,
    <<236, 199, 242, 74, 228, 212, 21, 4, 151, 78, 108, 97, 135, 91, 33, 185, 49, 68, 113, 3, 56, 158, 116, 230, 6, 27, 21, 251, 181, 127, 107, 5>>,
    <<182, 98, 214, 149, 46, 55, 255, 42, 49, 43, 171, 174, 23, 180, 193, 255, 38, 206, 180, 72, 185, 236, 196, 3, 112, 119, 221, 184, 252, 162, 29, 7>>,
    <<96, 196, 237, 215, 215, 3, 54, 238, 223, 78, 162, 121, 10, 219, 243, 193, 65, 8, 78, 144, 108, 24, 150, 219, 31, 147, 175, 186, 213, 50, 131, 246>>,
    <<191, 232, 51, 168, 52, 110, 153, 139, 14, 32, 198, 243, 195, 122, 10, 186, 174, 159, 128, 43, 162, 109, 244, 62, 252, 191, 104, 183, 216, 51, 201, 177>>,
    <<166, 122, 179, 70, 245, 73, 50, 18, 16, 65, 211, 138, 85, 64, 95, 213, 208, 103, 46, 63, 232, 61, 125, 210, 18, 186, 234, 163, 146, 167, 20, 156>>,
    <<28, 190, 33, 139, 152, 182, 45, 57, 33, 163, 118, 195, 106, 53, 54, 36, 100, 41, 215, 244, 33, 155, 48, 51, 7, 104, 61, 17, 24, 107, 252, 229>>,
    <<140, 19, 88, 153, 216, 155, 73, 22, 130, 237, 88, 100, 106, 4, 249, 8, 26, 216, 113, 166, 57, 205, 89, 21, 255, 127, 84, 234, 155, 138, 107, 214>>,
    <<138, 206, 74, 156, 7, 159, 167, 211, 53, 250, 65, 12, 101, 96, 164, 34, 253, 20, 118, 1, 254, 133, 254, 238, 62, 6, 18, 255, 40, 232, 215, 208>>,
    <<3, 120, 28, 195, 100, 36, 175, 11, 35, 243, 28, 137, 59, 182, 193, 35, 37, 251, 189, 8, 169, 15, 34, 59, 137, 187, 114, 134, 105, 52, 255, 151>>,
    <<19, 237, 54, 37, 77, 178, 230, 60, 127, 6, 184, 9, 25, 83, 130, 84, 215, 14, 133, 176, 241, 254, 225, 120, 94, 153, 0, 138, 193, 200, 32, 134>>,
    <<146, 42, 161, 59, 209, 215, 70, 122, 166, 225, 228, 136, 232, 135, 47, 250, 166, 231, 157, 241, 128, 82, 247, 175, 135, 123, 113, 72, 241, 172, 162, 18>>,
    <<135, 91, 149, 7, 215, 58, 230, 7, 225, 99, 93, 244, 242, 16, 108, 244, 78, 87, 24, 149, 130, 210, 39, 24, 70, 88, 156, 0, 198, 39, 192, 134>>,
    <<140, 85, 192, 33, 191, 87, 221, 39, 73, 110, 247, 64, 145, 15, 191, 134, 193, 220, 237, 204, 70, 167, 93, 206, 183, 235, 149, 238, 192, 24, 93, 2>>,
    <<84, 14, 251, 5, 245, 205, 235, 232, 202, 72, 224, 20, 0, 128, 160, 45, 63, 68, 186, 167, 110, 93, 143, 68, 138, 19, 147, 104, 211, 125, 251, 99>>,
    <<174, 155, 23, 239, 158, 170, 215, 191, 213, 162, 131, 9, 161, 251, 94, 112, 135, 202, 27, 251, 174, 116, 153, 203, 72, 236, 96, 249, 188, 108, 113, 36>>,
    <<163, 107, 109, 193, 185, 26, 16, 93, 178, 118, 95, 11, 155, 170, 43, 151, 88, 83, 68, 181, 84, 159, 186, 78, 121, 253, 246, 195, 149, 102, 57, 238>>,
    <<53, 66, 98, 6, 49, 56, 101, 186, 144, 1, 165, 204, 65, 173, 91, 181, 45, 245, 208, 6, 75, 172, 225, 216, 18, 93, 2, 27, 108, 89, 108, 202>>,
    <<117, 148, 224, 134, 8, 62, 72, 170, 246, 163, 170, 52, 32, 195, 89, 70, 225, 190, 112, 209, 7, 135, 229, 188, 33, 15, 164, 51, 158, 181, 117, 217>>,
    <<97, 85, 59, 254, 42, 230, 233, 98, 147, 229, 176, 72, 141, 70, 98, 218, 187, 195, 147, 2, 199, 63, 169, 255, 214, 4, 112, 242, 39, 252, 38, 250>>,
    <<163, 28, 6, 189, 70, 62, 57, 35, 188, 26, 173, 189, 228, 139, 22, 151, 108, 8, 7, 23, 55, 59, 129, 154, 6, 143, 50, 183, 166, 179, 139, 107>>,
    <<9, 73, 178, 195, 36, 245, 118, 94, 171, 178, 202, 24, 116, 153, 127, 155, 4, 131, 110, 147, 95, 159, 218, 242, 140, 226, 193, 243, 111, 100, 45, 14>>,
    <<104, 133, 138, 179, 220, 29, 45, 97, 57, 74, 7, 57, 29, 145, 2, 25, 40, 198, 131, 176, 253, 77, 177, 162, 96, 151, 103, 196, 176, 171, 83, 91>>,
    <<69, 106, 124, 65, 20, 77, 86, 5, 18, 123, 2, 29, 72, 206, 30, 244, 79, 218, 190, 166, 9, 230, 159, 17, 34, 69, 203, 229, 188, 39, 54, 254>>,
    <<227, 19, 102, 10, 150, 150, 220, 227, 58, 162, 132, 38, 149, 137, 242, 205, 8, 7, 17, 200, 81, 161, 211, 13, 215, 7, 34, 140, 235, 75, 135, 84>>,
    <<90, 16, 110, 141, 116, 146, 87, 65, 131, 98, 100, 157, 10, 203, 107, 168, 6, 245, 26, 0, 67, 241, 247, 202, 123, 185, 139, 2, 234, 208, 230, 80>>,
    <<140, 80, 33, 142, 182, 136, 77, 203, 240, 129, 49, 182, 195, 111, 42, 39, 247, 206, 223, 168, 27, 126, 166, 56, 55, 195, 130, 142, 217, 130, 39, 120>>,
    <<17, 88, 105, 238, 28, 82, 192, 141, 130, 206, 12, 174, 11, 194, 188, 70, 39, 116, 187, 11, 161, 139, 129, 56, 219, 228, 154, 73, 146, 95, 102, 7>>,
    <<127, 219, 68, 93, 163, 228, 62, 177, 121, 196, 248, 84, 21, 137, 81, 57, 173, 142, 21, 238, 39, 88, 211, 25, 250, 88, 81, 56, 48, 17, 248, 221>>,
    <<62, 214, 128, 141, 41, 62, 210, 254, 59, 213, 141, 65, 237, 222, 101, 140, 247, 118, 187, 178, 140, 134, 161, 87, 150, 169, 92, 99, 255, 71, 103, 178>>,
    <<250, 68, 13, 225, 185, 131, 123, 218, 241, 94, 104, 8, 235, 35, 40, 251, 254, 204, 105, 212, 46, 247, 88, 112, 161, 0, 8, 139, 99, 112, 2, 60>>,
    <<157, 218, 227, 55, 116, 128, 182, 123, 239, 183, 133, 92, 187, 116, 186, 7, 219, 237, 9, 233, 43, 250, 255, 88, 191, 33, 66, 225, 190, 14, 43, 12>>,
    <<233, 250, 35, 112, 142, 76, 123, 227, 245, 124, 97, 56, 114, 84, 147, 187, 97, 224, 233, 250, 224, 53, 185, 51, 14, 126, 253, 204, 140, 115, 153, 23>>,
    <<23, 252, 243, 50, 38, 255, 189, 77, 215, 20, 191, 47, 77, 22, 90, 234, 184, 236, 247, 221, 169, 120, 138, 98, 99, 128, 103, 81, 184, 243, 109, 253>>,
    <<247, 217, 143, 2, 121, 167, 133, 77, 196, 138, 253, 238, 107, 181, 59, 24, 95, 158, 17, 86, 164, 65, 254, 146, 53, 5, 194, 146, 53, 13, 237, 148>>,
    <<10, 94, 150, 154, 4, 57, 131, 82, 250, 122, 74, 251, 249, 111, 162, 213, 226, 96, 5, 221, 188, 42, 132, 233, 154, 95, 96, 101, 250, 27, 167, 225>>,
    <<148, 50, 52, 189, 164, 251, 242, 51, 10, 49, 115, 103, 90, 241, 73, 206, 224, 66, 247, 115, 205, 157, 107, 72, 223, 148, 26, 3, 125, 54, 120, 193>>,
    <<57, 21, 238, 166, 242, 117, 5, 34, 216, 76, 182, 5, 174, 159, 2, 237, 212, 124, 96, 124, 206, 230, 137, 76, 194, 40, 186, 149, 86, 252, 171, 45>>,
    <<78, 72, 147, 39, 67, 58, 206, 123, 119, 226, 85, 249, 229, 10, 202, 235, 220, 23, 170, 219, 47, 39, 99, 11, 61, 163, 203, 230, 2, 105, 202, 185>>,
    <<126, 46, 142, 55, 207, 232, 82, 75, 82, 205, 177, 7, 124, 91, 91, 16, 103, 118, 84, 249, 42, 85, 161, 1, 228, 128, 176, 23, 162, 44, 86, 6>>,
    <<237, 147, 44, 16, 248, 208, 60, 228, 118, 79, 229, 171, 91, 43, 130, 47, 41, 1, 246, 66, 252, 163, 43, 221, 31, 7, 120, 120, 132, 4, 198, 222>>,
    <<113, 113, 75, 238, 232, 64, 123, 168, 22, 98, 191, 20, 19, 168, 51, 74, 18, 211, 160, 78, 215, 191, 156, 15, 56, 169, 216, 241, 223, 32, 84, 60>>
  >>

RngTableSeeds == Len(RngWordTable)
RngTableWords == Len(RngWordTable[1])

\* the (top 8 bits of the) word the generator outputs at position pos
RngWord(seed, pos) ==
  IF seed + 1 \in 1..RngTableSeeds /\ pos + 1 \in 1..RngTableWords
  THEN RngWordTable[seed + 1][pos + 1]
  ELSE 0

\* random.Random(seed): a generator is its seed and the number of words drawn
NewRandom(seed) == [seed |-> seed, pos |-> 0]

RECURSIVE BitLength(_)
BitLength(n) == IF n = 0 THEN 0 ELSE 1 + BitLength(n \div 2)

RECURSIVE Pow2(_)
Pow2(k) == IF k = 0 THEN 1 ELSE 2 * Pow2(k - 1)

\* faulty variant of GetRandBits: one generator shared by every session, so
\* that a draw is displaced by the calls another session has made since
GetRandBits_shared(rng, k) ==
  [value |-> RngWord(rng.seed, rng.pos + (Len(calls) - Len(echoed))) \div Pow2(8 - k),
   rng |-> [rng EXCEPT !.pos = @ + 1]]

\* getrandbits(k), k <= 8: one output word shifted down to k bits
GetRandBits(rng, k) ==
  [value |-> RngWord(rng.seed, rng.pos) \div Pow2(8 - k),
   rng |-> [rng EXCEPT !.pos = @ + 1]]

RECURSIVE RandBelow(_, _)
\* _randbelow(n), the draw d made: d is kept when below n, else drawn again
RandBelowKeep(n, d) ==
  IF d.value < n \/ d.rng.pos > RngTableWords THEN d ELSE RandBelow(d.rng, n)

\* _randbelow(n): rejection sampling over getrandbits(n.bit_length())
RandBelow(rng, n) == RandBelowKeep(n, GetRandBits(rng, BitLength(n)))

\* a + d for the draw d of _randbelow
RandIntFrom(a, d) == [value |-> a + d.value, rng |-> d.rng]

\* randint(a, b) = a + _randbelow(b - a + 1)
RandInt(rng, a, b) == RandIntFrom(a, RandBelow(rng, b - a + 1))

\* random(): one float, built from two output words
RandomFloat(rng) == [rng EXCEPT !.pos = @ + 2]

(* --------------------------- rules/core.py ---------------------------- *)
\* SessionState(seed): the seed, the generator and the roll ledger
SessionState(seed) == [seed |-> seed, rng |-> NewRandom(seed), turn_log |-> <<>>]

\* A dice formula is the sequence of its characters, so that the patterns,
\* int(), str() and strip() are computed on the text.
DigitChars == <<"0", "1", "2", "3", "4", "5", "6", "7", "8", "9">>

IsDigit(c) == \E i \in DOMAIN DigitChars : DigitChars[i] = c

DigitValue(c) == (CHOOSE i \in DOMAIN DigitChars : DigitChars[i] = c) - 1

\* \s of the patterns, the characters str.strip() removes
IsSpace(c) == c \in {" ", "\t", "\n"}

RECURSIVE LStrip(_)
LStrip(s) == IF Len(s) > 0 /\ IsSpace(Head(s)) THEN LStrip(Tail(s)) ELSE s

RECURSIVE RStrip(_)
RStrip(s) ==
  IF Len(s) > 0 /\ IsSpace(s[Len(s)]) THEN RStrip(SubSeq(s, 1, Len(s) - 1)) ELSE s

\* dice_str.strip()
Strip(s) == LStrip(RStrip(s))

RECURSIVE DigitRun(_)
\* the length of the run of digits a \d* or \d+ takes at the head of s
DigitRun(s) == IF Len(s) > 0 /\ IsDigit(Head(s)) THEN 1 + DigitRun(Tail(s)) ELSE 0

RECURSIVE ParseInt(_)
\* int(text) of a run of digits
ParseInt(s) ==
  IF Len(s) = 0 THEN 0
  ELSE 10 * ParseInt(SubSeq(s, 1, Len(s) - 1)) + DigitValue(s[Len(s)])

\* faulty variant of ParseSigned: the sign of the modifier is dropped
ParseSigned_magnitude(s) == ParseInt(Tail(s))

\* int(text) of a sign followed by digits
ParseSigned(s) == IF Head(s) = "-" THEN 0 - ParseInt(Tail(s)) ELSE ParseInt(Tail(s))

RECURSIVE IntStr(_)
\* str(n) of a non-negative int
IntStr(n) ==
  IF n < 10 THEN <<DigitChars[n + 1]>>
  ELSE IntStr(n \div 10) \o <<DigitChars[(n % 10) + 1]>>

\* INTEGER_PATTERN.match(dice_str): ^\s*\d+\s*$
INTEGER_PATTERN(dice_str) ==
  LET t == Strip(dice_str) IN Len(t) > 0 /\ DigitRun(t) = Len(t)

NoMatch ==
  [matched |-> FALSE, count_text |-> <<>>, sides_text |-> <<>>, modifier_text |-> <<>>]

\* the rest of DICE_PATTERN after the count: d(\d+)([+-]\d+)?
DiceTail(count_text, body) ==
  LET n == DigitRun(body)
      tail == SubSeq(body, n + 1, Len(body))
  IN IF n = 0 THEN NoMatch
     ELSE IF Len(tail) = 0
     THEN [matched |-> TRUE, count_text |-> count_text,
           sides_text |-> SubSeq(body, 1, n), modifier_text |-> <<>>]
     ELSE IF tail[1] \in {"+", "-"} /\ Len(tail) >= 2 /\ DigitRun(Tail(tail)) = Len(tail) - 1
     THEN [matched |-> TRUE, count_text |-> count_text,
           sides_text |-> SubSeq(body, 1, n), modifier_text |-> tail]
     ELSE NoMatch

\* DICE_PATTERN.match(dice_str) and its groups: ^\s*(\d*)d(\d+)([+-]\d+)?\s*$,
\* ignoring case
DICE_PATTERN(dice_str) ==
  LET t == Strip(dice_str)
      n == DigitRun(t)
  IN IF Len(t) > n /\ t[n + 1] \in {"d", "D"}
     THEN DiceTail(SubSeq(t, 1, n), SubSeq(t, n + 2, Len(t)))
     ELSE NoMatch

_log_roll(session, formula, result, rolls, modifier, label) ==
  [session EXCEPT !.turn_log = Append(@,
     [formula |-> formula, result |-> result, rolls |-> rolls,
      modifier |-> modifier, label |-> label])]

\* roll_d20 once randint has drawn d: the roll is logged
roll_d20_logged(session, d) ==
  [raised |-> FALSE, result |-> d.value,
   session |-> _log_roll([session EXCEPT !.rng = d.rng],
                         <<"1", "d", "2", "0">>, d.value, <<d.value>>, 0, None)]

\* roll_d20: returns the value and the session after the call
roll_d20(session) == roll_d20_logged(session, RandInt(session.rng, 1, 20))

\* count, sides and modifier as roll reads them from the match m; ok is
\* FALSE where roll raises ValueError
DiceFields(m) ==
  IF ~m.matched THEN [ok |-> FALSE, count |-> 0, sides |-> 0, modifier |-> 0]
  ELSE LET count == IF Len(m.count_text) > 0 THEN ParseInt(m.count_text) ELSE 1
           sides == ParseInt(m.sides_text)
       IN [ok |-> ~(count <= 0 \/ sides <= 0), count |-> count, sides |-> sides,
           modifier |-> IF Len(m.modifier_text) > 0
                        THEN ParseSigned(m.modifier_text) ELSE 0]

ParseDice(dice_str) == DiceFields(DICE_PATTERN(dice_str))

RECURSIVE RollDice(_, _, _)
\* the die d followed by the remaining dice
RollDiceJoin(d, rest) == [rolls |-> <<d.value>> \o rest.rolls, rng |-> rest.rng]

\* the remaining dice after the die d
RollDiceNext(count, sides, d) ==
  RollDiceJoin(d, RollDice(d.rng, count - 1, sides))

\* [session.rng.randint(1, sides) for _ in range(count)]
RollDice(rng, count, sides) ==
  IF count = 0 THEN [rolls |-> <<>>, rng |-> rng]
  ELSE RollDiceNext(count, sides, RandInt(rng, 1, sides))

RECURSIVE SumSeq(_)
SumSeq(s) == IF Len(s) = 0 THEN 0 ELSE Head(s) + SumSeq(Tail(s))

\* raise ValueError: nothing is returned, the session is as it was
Raised(session) == [raised |-> TRUE, result |-> 0, session |-> session]

\* roll once the dice d of the parsed formula p are drawn: total and log
roll_logged(session, formula, p, d) ==
  LET total == SumSeq(d.rolls) + p.modifier
  IN [raised |-> FALSE, result |-> total,
      session |-> _log_roll([session EXCEPT !.rng = d.rng],
                            formula, total, d.rolls, p.modifier, None)]

\* roll of a formula that is no bare integer, parsed as p
roll_parsed(session, dice_str, p) ==
  IF ~p.ok THEN Raised(session)
  ELSE roll_logged(session, Strip(dice_str), p,
                   RollDice(session.rng, p.count, p.sides))

\* roll of a bare integer: logged without dice
roll_integer(session, result) ==
  [raised |-> FALSE, result |-> result,
   session |-> _log_roll(session, IntStr(result), result, <<>>, 0, None)]

\* roll(session, dice_str)
roll(session, dice_str) ==
  IF INTEGER_PATTERN(dice_str) THEN roll_integer(session, ParseInt(Strip(dice_str)))
  ELSE roll_parsed(session, dice_str, ParseDice(dice_str))

(* -------------------------- rules/statuses.py -------------------------- *)
\* A status name handed to the ledger is the sequence of its characters;
\* canonical names, the keys of a ledger, are strings.
UpperChars == <<"A", "B", "C", "D", "E", "F", "G", "H", "I", "J", "K", "L", "M",
    "N", "O", "P", "Q", "R", "S", "T", "U", "V", "W", "X", "Y", "Z">>

LowerChars == <<"a", "b", "c", "d", "e", "f", "g", "h", "i", "j", "k", "l", "m",
    "n", "o", "p", "q", "r", "s", "t", "u", "v", "w", "x", "y", "z">>

LowerChar(c) ==
  IF \E i \in DOMAIN UpperChars : UpperChars[i] = c
  THEN LowerChars[CHOOSE i \in DOMAIN UpperChars : UpperChars[i] = c]
  ELSE c

\* str.lower()
LowerText(s) == [i \in DOMAIN s |-> LowerChar(s[i])]

\* the dict literal, one record per key
STATUS_CANONICAL ==
  <<[key |-> <<"b", "l", "e", "e", "d", "i", "n", "g">>, name |-> "Bleeding"],
    [key |-> <<"i", "g", "n", "i", "t", "e", "d">>, name |-> "Ignited"],
    [key |-> <<"s", "t", "u", "n">>, name |-> "Stun"],
    [key |-> <<"a", "s", "p", "h", "y", "x", "i", "a", "t", "i", "o", "n">>, name |-> "Asphyxiation"],
    [key |-> <<"t", "o", "x", "i", "n">>, name |-> "Toxin"],
    [key |-> <<"i", "n", "j", "u", "r", "e", "d">>, name |-> "Injured"],
    [key |-> <<"c", "o", "n", "c", "e", "n", "t", "r", "a", "t", "i", "o", "n">>, name |-> "Concentration"],
    [key |-> <<"h", "i", "d", "d", "e", "n">>, name |-> "Hidden"],
    [key |-> <<"c", "o", "l", "d">>, name |-> "Cold"],
    [key |-> <<"d", "i", "s", "e", "a", "s", "e">>, name |-> "Disease"]>>

DEFAULT_DURATIONS ==
  "Bleeding" :> Some(3)
  @@ "Ignited" :> Some(3)
  @@ "Stun" :> Some(1)
  @@ "Asphyxiation" :> Some(2)
  @@ "Toxin" :> Some(3)
  @@ "Injured" :> Some(3)
  @@ "Concentration" :> None
  @@ "Hidden" :> Some(1)
  @@ "Cold" :> Some(3)
  @@ "Disease" :> None

\* normalize_status: the canonical name, "" where it raises ValueError
normalize_status(name) ==
  LET key == LowerText(Strip(name))
      hits == {i \in DOMAIN STATUS_CANONICAL : STATUS_CANONICAL[i].key = key}
  IN IF hits = {} THEN "" ELSE STATUS_CANONICAL[CHOOSE i \in hits : TRUE].name

Max(a, b) == IF a >= b THEN a ELSE b

Min(a, b) == IF a <= b THEN a ELSE b

StatusEntry(stacks, level, duration) ==
  [stacks |-> stacks, level |-> level, duration |-> duration]

\* updated[canonical] = entry on a copy of the ledger
WithEntry(statuses, canonical, entry) ==
  [n \in DOMAIN statuses \cup {canonical} |->
     IF n = canonical THEN entry ELSE statuses[n]]

\* faulty variant of MergeEntry: the stacks given replace the entry's stacks
MergeEntry_replace(entry, stacks, level, duration) ==
  StatusEntry(
    Max(1, stacks),
    Max(entry.level, level),
    IF IsNone(duration) THEN entry.duration
    ELSE IF IsNone(entry.duration) THEN duration
    ELSE Some(Max(Get(entry.duration), Get(duration))))

\* the entry apply_status stores: stacks add, level and duration take the
\* maximum; duration is the given-or-default one
MergeEntry(entry, stacks, level, duration) ==
  StatusEntry(
    Max(1, entry.stacks + stacks),
    Max(entry.level, level),
    IF IsNone(duration) THEN entry.duration
    ELSE IF IsNone(entry.duration) THEN duration
    ELSE Some(Max(Get(entry.duration), Get(duration))))

\* apply_status once the name is normalized
ApplyCanonical(statuses, canonical, stacks, level, duration) ==
  IF canonical = "" THEN [raised |-> TRUE, statuses |-> statuses]
  ELSE [raised |-> FALSE,
        statuses |->
          WithEntry(statuses, canonical,
            MergeEntry(
              IF canonical \in DOMAIN statuses THEN statuses[canonical]
              ELSE StatusEntry(0, 0, None),
              stacks, level,
              IF IsNone(duration) THEN DEFAULT_DURATIONS[canonical]
              ELSE duration))]

\* apply_status: the ledger returned; raised where normalize_status raises.
\* A ledger is a function from canonical names to entries, None and {} are
\* the empty one.
apply_status(statuses, name, stacks, level, duration) ==
  ApplyCanonical(statuses, normalize_status(name), stacks, level, duration)

\* int(entry.get("duration") or 0)
DurationOrZero(duration) == IF IsNone(duration) THEN 0 ELSE Get(duration)

\* faulty variant of RampEntry: a move leaves the level of Bleeding as it was
RampEntry_flat(canonical, trigger_key, entry, amount) ==
  IF canonical = "Bleeding" /\ trigger_key = <<"m", "o", "v", "e">>
  THEN StatusEntry(entry.stacks + amount,
                   entry.level,
                   Some(Max(DurationOrZero(entry.duration), 3)))
  ELSE IF canonical = "Ignited" /\ trigger_key \in {<<"i", "g", "n", "i", "t", "e">>, <<"f", "u", "e", "l">>}
  THEN StatusEntry(entry.stacks, entry.level + amount,
                   Some(Max(DurationOrZero(entry.duration), 3)))
  ELSE IF canonical = "Cold" /\ trigger_key \in {<<"c", "o", "l", "d">>, <<"e", "x", "p", "o", "s", "u", "r", "e">>}
  THEN StatusEntry(entry.stacks, entry.level + amount,
                   Some(Max(DurationOrZero(entry.duration), 3)))
  ELSE IF canonical = "Disease" /\ trigger_key = <<"d", "a", "y">>
  THEN StatusEntry(entry.stacks, entry.level + amount, entry.duration)
  ELSE IF canonical = "Asphyxiation" /\ trigger_key = <<"n", "o", "_", "a", "i", "r">>
  THEN StatusEntry(entry.stacks, entry.level + amount,
                   Some(Max(DurationOrZero(entry.duration), 2)))
  ELSE IF canonical = "Toxin" /\ trigger_key \in {<<"e", "x", "p", "o", "s", "e", "d">>, <<"d", "o", "s", "e">>}
  THEN StatusEntry(entry.stacks, entry.level + amount,
                   Some(Max(DurationOrZero(entry.duration), 3)))
  ELSE IF canonical = "Injured" /\ trigger_key \in {<<"w", "o", "r", "s", "e", "n">>, <<"h", "i", "t">>}
  THEN StatusEntry(entry.stacks, entry.level + amount,
                   Some(Max(DurationOrZero(entry.duration), 3)))
  ELSE IF canonical \in {"Hidden", "Concentration", "Stun"}
          /\ trigger_key = <<"r", "e", "f", "r", "e", "s", "h">>
          /\ ~IsNone(DEFAULT_DURATIONS[canonical])
  THEN StatusEntry(entry.stacks, entry.level,
                   Some(Max(DurationOrZero(entry.duration),
                            Get(DEFAULT_DURATIONS[canonical]))))
  ELSE entry

\* the entry a ramp stores for the status, by the if-chain on status and
\* trigger key; an unrecognized pair leaves the entry as it is
RampEntry(canonical, trigger_key, entry, amount) ==
  IF canonical = "Bleeding" /\ trigger_key = <<"m", "o", "v", "e">>
  THEN StatusEntry(entry.stacks + amount,
                   Max(entry.level, entry.stacks + amount),
                   Some(Max(DurationOrZero(entry.duration), 3)))
  ELSE IF canonical = "Ignited" /\ trigger_key \in {<<"i", "g", "n", "i", "t", "e">>, <<"f", "u", "e", "l">>}
  THEN StatusEntry(entry.stacks, entry.level + amount,
                   Some(Max(DurationOrZero(entry.duration), 3)))
  ELSE IF canonical = "Cold" /\ trigger_key \in {<<"c", "o", "l", "d">>, <<"e", "x", "p", "o", "s", "u", "r", "e">>}
  THEN StatusEntry(entry.stacks, entry.level + amount,
                   Some(Max(DurationOrZero(entry.duration), 3)))
  ELSE IF canonical = "Disease" /\ trigger_key = <<"d", "a", "y">>
  THEN StatusEntry(entry.stacks, entry.level + amount, entry.duration)
  ELSE IF canonical = "Asphyxiation" /\ trigger_key = <<"n", "o", "_", "a", "i", "r">>
  THEN StatusEntry(entry.stacks, entry.level + amount,
                   Some(Max(DurationOrZero(entry.duration), 2)))
  ELSE IF canonical = "Toxin" /\ trigger_key \in {<<"e", "x", "p", "o", "s", "e", "d">>, <<"d", "o", "s", "e">>}
  THEN StatusEntry(entry.stacks, entry.level + amount,
                   Some(Max(DurationOrZero(entry.duration), 3)))
  ELSE IF canonical = "Injured" /\ trigger_key \in {<<"w", "o", "r", "s", "e", "n">>, <<"h", "i", "t">>}
  THEN StatusEntry(entry.stacks, entry.level + amount,
                   Some(Max(DurationOrZero(entry.duration), 3)))
  ELSE IF canonical \in {"Hidden", "Concentration", "Stun"}
          /\ trigger_key = <<"r", "e", "f", "r", "e", "s", "h">>
          /\ ~IsNone(DEFAULT_DURATIONS[canonical])
  THEN StatusEntry(entry.stacks, entry.level,
                   Some(Max(DurationOrZero(entry.duration),
                            Get(DEFAULT_DURATIONS[canonical]))))
  ELSE entry

\* ramp_status once the name is normalized and the trigger stripped and
\* lowered: the entry, or the default one, is ramped and stored
RampCanonical(statuses, canonical, trigger_key, amount) ==
  IF canonical = "" THEN [raised |-> TRUE, statuses |-> statuses]
  ELSE [raised |-> FALSE,
        statuses |->
          WithEntry(statuses, canonical,
            RampEntry(canonical, trigger_key,
                      IF canonical \in DOMAIN statuses THEN statuses[canonical]
                      ELSE StatusEntry(1, 1, None),
                      amount))]

\* ramp_status: the ledger returned; raised where normalize_status raises
ramp_status(statuses, name, trigger, amount) ==
  RampCanonical(statuses, normalize_status(name), LowerText(Strip(trigger)), amount)

\* faulty variant of TickDamage: Ignited burns for its level only
TickDamage_single(canonical, entry, tick_key) ==
  IF canonical = "Bleeding" /\ tick_key = <<"t", "u", "r", "n">>
  THEN Max(1, entry.stacks) * Max(1, entry.level)
  ELSE IF canonical \in {"Ignited", "Toxin"} /\ tick_key = <<"t", "u", "r", "n">>
  THEN Max(1, entry.level)
  ELSE IF canonical = "Asphyxiation" /\ tick_key = <<"t", "u", "r", "n">>
  THEN 2 * Max(1, entry.level)
  ELSE IF canonical = "Disease" /\ tick_key = <<"d", "a", "y">>
  THEN Max(1, entry.level) + 1
  ELSE 0

\* the HP an entry costs on a tick (a non-negative number)
TickDamage(canonical, entry, tick_key) ==
  IF canonical = "Bleeding" /\ tick_key = <<"t", "u", "r", "n">>
  THEN Max(1, entry.stacks) * Max(1, entry.level)
  ELSE IF canonical = "Ignited" /\ tick_key = <<"t", "u", "r", "n">>
  THEN 2 * Max(1, entry.level)
  ELSE IF canonical = "Asphyxiation" /\ tick_key = <<"t", "u", "r", "n">>
  THEN 2 * Max(1, entry.level)
  ELSE IF canonical = "Toxin" /\ tick_key = <<"t", "u", "r", "n">>
  THEN Max(1, entry.level)
  ELSE IF canonical = "Disease" /\ tick_key = <<"d", "a", "y">>
  THEN Max(1, entry.level) + 1
  ELSE 0

\* faulty variant of TickExpires: an entry is kept for one tick at duration 0
TickExpires_late(entry, tick_key) ==
  ~IsNone(entry.duration) /\ tick_key = <<"t", "u", "r", "n">> /\ Get(entry.duration) - 1 < 0

\* the entry expires on this tick
TickExpires(entry, tick_key) ==
  ~IsNone(entry.duration) /\ tick_key = <<"t", "u", "r", "n">> /\ Get(entry.duration) - 1 <= 0

\* the entry a tick stores, when it does not expire
TickEntry(canonical, entry, tick_key) ==
  StatusEntry(entry.stacks,
              IF canonical = "Disease" /\ tick_key = <<"d", "a", "y">>
              THEN Max(1, entry.level) + 1 ELSE entry.level,
              IF ~IsNone(entry.duration) /\ tick_key = <<"t", "u", "r", "n">>
              THEN Some(Get(entry.duration) - 1) ELSE entry.duration)

RECURSIVE TickDamageSum(_, _, _)
\* the damage of the entries named in names
TickDamageSum(statuses, names, tick_key) ==
  IF names = {} THEN 0
  ELSE TickDamage(CHOOSE n \in names : TRUE,
                  statuses[CHOOSE n \in names : TRUE], tick_key)
       + TickDamageSum(statuses, names \ {CHOOSE n \in names : TRUE}, tick_key)

\* tick_statuses with the tick type stripped and lowered.  The keys of a
\* ledger are canonical names, which normalize_status maps to themselves;
\* expired is the set of the names the list holds.
TickKeyed(statuses, tick_key) ==
  [statuses |->
     [n \in {m \in DOMAIN statuses : ~TickExpires(statuses[m], tick_key)} |->
        TickEntry(n, statuses[n], tick_key)],
   hp_delta |-> 0 - TickDamageSum(statuses, DOMAIN statuses, tick_key),
   expired |-> {m \in DOMAIN statuses : TickExpires(statuses[m], tick_key)}]

\* tick_statuses: the ledger, the HP delta and the expired names
tick_statuses(statuses, tick_type) == TickKeyed(statuses, LowerText(Strip(tick_type)))

\* total_dex_penalty
total_dex_penalty(statuses) ==
  IF "Cold" \in DOMAIN statuses THEN Max(1, statuses["Cold"].level) ELSE 0

(* --------------------------- rules/combat.py --------------------------- *)
CALLED_SHOT_PENALTY == 5
DODGE_BONUS_DEFAULT == 2

\* the keys of the dict
CALLED_SHOT_EFFECTS == {"disarm", "slow", "stun_attempt"}

Weapon(name, damage, bonus) == [name |-> name, damage |-> damage, bonus |-> bonus]

\* the fields without a default, then skill, attr and weapon; the other
\* fields take their defaults
CombatantState(name, armor_rating, ap, hp, skill, attr, weapon) ==
  [name |-> name, dex |-> 0, armor_rating |-> armor_rating, ap |-> ap, hp |-> hp,
   statuses |-> <<>>, skill |-> skill, attr |-> attr, attack_bonus |-> 0,
   damage_bonus |-> 0, weapon |-> weapon, initiative_bonus |-> 0]

\* the keyword arguments of resolve_attack
ResolveOptions(called_shot, called_shot_effect, reaction, reaction_bonus, reaction_ap, attack_roll_override, counter_roll_override) ==
  [called_shot |-> called_shot, called_shot_effect |-> called_shot_effect,
   reaction |-> reaction, reaction_bonus |-> reaction_bonus,
   reaction_ap |-> reaction_ap, attack_roll_override |-> attack_roll_override,
   counter_roll_override |-> counter_roll_override]

\* their defaults
DefaultOptions == ResolveOptions(FALSE, None, None, 0, 0, None, None)

\* faulty variant of _dodge_bonus: the given reaction bonus is ignored
_dodge_bonus_fixed(reaction, reaction_bonus) ==
  IF reaction # Some("dodge") THEN 0 ELSE DODGE_BONUS_DEFAULT

_dodge_bonus(reaction, reaction_bonus) ==
  IF reaction # Some("dodge") THEN 0
  ELSE IF reaction_bonus # 0 THEN reaction_bonus
  ELSE DODGE_BONUS_DEFAULT

\* _roll_damage once roll has returned r: the dice of the last ledger entry,
\* doubled on a crit, plus its modifier and the bonus
DamageOf(r, bonus, crit) ==
  IF r.raised THEN r
  ELSE IF Len(r.session.turn_log) > 0
  THEN [r EXCEPT !.result =
          SumSeq(r.session.turn_log[Len(r.session.turn_log)].rolls)
            * (IF crit THEN 2 ELSE 1)
          + r.session.turn_log[Len(r.session.turn_log)].modifier + bonus]
  ELSE [r EXCEPT !.result = @ + bonus]

\* faulty variant of _roll_damage: a crit does not double the dice
_roll_damage_flat(session, dice_str, bonus, crit) ==
  DamageOf(roll(session, dice_str), bonus, FALSE)

_roll_damage(session, dice_str, bonus, crit) ==
  DamageOf(roll(session, dice_str), bonus, crit)

\* faulty variant of _apply_damage: the armor points do not absorb
_apply_damage_through(ap, hp, damage) ==
  [ap |-> Max(0, ap - damage), hp |-> Max(0, hp - Max(0, damage))]

_apply_damage(ap, hp, damage) ==
  [ap |-> Max(0, ap - damage), hp |-> Max(0, hp - Max(0, damage - ap))]

\* faulty variant of _apply_damage_with_block: the AP left of the block is
\* kept by the defender
_apply_damage_with_block_kept(base_ap, hp, damage, block_ap) ==
  [ap |-> _apply_damage(base_ap + block_ap, hp, damage).ap,
   hp |-> _apply_damage(base_ap + block_ap, hp, damage).hp]

_apply_damage_with_block(base_ap, hp, damage, block_ap) ==
  [ap |-> Min(_apply_damage(base_ap + block_ap, hp, damage).ap, base_ap),
   hp |-> _apply_damage(base_ap + block_ap, hp, damage).hp]

_apply_called_shot_effect(statuses, effect) ==
  IF effect = Some("stun_attempt")
  THEN apply_status(statuses, <<"S", "t", "u", "n">>, 1, 1, Some(1)).statuses
  ELSE IF effect = Some("slow")
  THEN apply_status(statuses, <<"C", "o", "l", "d">>, 1, 1, Some(1)).statuses
  ELSE statuses

\* override or roll_d20(session): an override of None or 0 rolls
RollOrOverride(session, override) ==
  IF ~IsNone(override) /\ Get(override) # 0
  THEN [raised |-> FALSE, result |-> Get(override), session |-> session]
  ELSE roll_d20(session)

CounterResult(hit, attack_roll, attack_total, damage, ap_before, ap_after, hp_before, hp_after) ==
  [triggered |-> TRUE, hit |-> hit, attack_roll |-> attack_roll,
   attack_total |-> attack_total, damage |-> damage, ap_before |-> ap_before,
   ap_after |-> ap_after, hp_before |-> hp_before, hp_after |-> hp_after]

\* the counter once its damage d is rolled (d.result is 0 on a miss)
CounterDamaged(a, hit, total, d, attacker, after) ==
  [raised |-> d.raised,
   counter |-> CounterResult(hit, a.result, total, d.result, attacker.ap,
                             after.ap, attacker.hp, after.hp),
   attacker |-> [attacker EXCEPT !.ap = after.ap, !.hp = after.hp],
   session |-> d.session]

CounterHit(a, hit, total, d, attacker) ==
  CounterDamaged(a, hit, total, d, attacker,
                 IF hit THEN _apply_damage(attacker.ap, attacker.hp, d.result)
                 ELSE [ap |-> attacker.ap, hp |-> attacker.hp])

CounterRolled(a, total, attacker, defender, counter_weapon) ==
  CounterHit(a, total >= attacker.armor_rating, total,
             IF total >= attacker.armor_rating
             THEN _roll_damage(a.session, counter_weapon.damage,
                               counter_weapon.bonus + defender.damage_bonus,
                               a.result >= 19)
             ELSE [raised |-> FALSE, result |-> 0, session |-> a.session],
             attacker)

CounterAttack(a, attacker, defender) ==
  CounterRolled(a, a.result + defender.skill + defender.attr + defender.attack_bonus,
                attacker, defender,
                IF IsNone(defender.weapon)
                THEN Weapon("Counter Strike", <<"1", "d", "4">>, 0)
                ELSE Get(defender.weapon))

\* faulty variant of _resolve_counter: the counter is resolved against the
\* defender's own armor rating
_resolve_counter_self(session, counter_roll_override, attacker, defender) ==
  CounterAttack(RollOrOverride(session, counter_roll_override),
                [attacker EXCEPT !.armor_rating = defender.armor_rating], defender)

_resolve_counter(session, counter_roll_override, attacker, defender) ==
  CounterAttack(RollOrOverride(session, counter_roll_override), attacker, defender)

AttackResult(hit, crit, attack_roll, attack_total, target_ar, damage, ap_before, ap_after, hp_before, hp_after, called_shot_effect, counter) ==
  [hit |-> hit, crit |-> crit, attack_roll |-> attack_roll,
   attack_total |-> attack_total, target_ar |-> target_ar, damage |-> damage,
   ap_before |-> ap_before, ap_after |-> ap_after, hp_before |-> hp_before,
   hp_after |-> hp_after, called_shot_effect |-> called_shot_effect,
   counter |-> counter]

\* raise ValueError out of resolve_attack: nothing is returned
AttackRaised(session, attacker, defender) ==
  [raised |-> TRUE, result |-> None, attacker |-> attacker,
   defender |-> defender, session |-> session]

\* the result once the counter c is resolved (c.counter is None without one)
AttackCountered(a, hit, total, target_ar, d, after, effect, options, defender, c) ==
  IF c.raised THEN AttackRaised(c.session, c.attacker, defender)
  ELSE [raised |-> FALSE,
        result |->
          Some(AttackResult(
            hit, a.result >= 19, a.result, total, target_ar, d.result,
            defender.ap + (IF options.reaction = Some("block")
                           THEN options.reaction_ap ELSE 0),
            after.ap, defender.hp, after.hp,
            IF hit /\ options.called_shot THEN effect ELSE None,
            c.counter)),
        attacker |-> c.attacker,
        defender |->
          [defender EXCEPT
             !.ap = after.ap, !.hp = after.hp,
             !.statuses = IF hit /\ options.called_shot
                          THEN _apply_called_shot_effect(defender.statuses, effect)
                          ELSE defender.statuses],
        session |-> c.session]

\* the attack once its damage d is rolled: damage applied, then the counter
AttackDamaged(a, hit, total, target_ar, d, effect, options, attacker, defender) ==
  IF d.raised THEN AttackRaised(d.session, attacker, defender)
  ELSE AttackCountered(
         a, hit, total, target_ar, d,
         IF ~hit THEN [ap |-> defender.ap, hp |-> defender.hp]
         ELSE IF options.reaction = Some("block") /\ options.reaction_ap # 0
         THEN _apply_damage_with_block(defender.ap, defender.hp, d.result,
                                       options.reaction_ap)
         ELSE _apply_damage(defender.ap, defender.hp, d.result),
         effect, options, defender,
         IF options.reaction = Some("counter") /\ ~hit
         THEN [c \in {"raised", "counter", "attacker", "session"} |->
                 IF c = "counter"
                 THEN Some(_resolve_counter(d.session, options.counter_roll_override,
                                            attacker, defender).counter)
                 ELSE _resolve_counter(d.session, options.counter_roll_override,
                                       attacker, defender)[c]]
         ELSE [raised |-> FALSE, counter |-> None, attacker |-> attacker,
               session |-> d.session])

\* the attack with its total and hit flag: damage is rolled on a hit, with
\* the attacker's weapon
AttackHit(a, hit, total, target_ar, effect, options, attacker, defender) ==
  IF hit /\ IsNone(attacker.weapon) THEN AttackRaised(a.session, attacker, defender)
  ELSE AttackDamaged(
         a, hit, total, target_ar,
         IF hit
         THEN _roll_damage(a.session, Get(attacker.weapon).damage,
                           Get(attacker.weapon).bonus + attacker.damage_bonus,
                           a.result >= 19)
         ELSE [raised |-> FALSE, result |-> 0, session |-> a.session],
         effect, options, attacker, defender)

\* the attack once the d20 roll a is made or overridden
AttackTotal(a, total, target_ar, effect, options, attacker, defender) ==
  AttackHit(a, total >= target_ar, total, target_ar, effect, options,
            attacker, defender)

\* resolve_attack with the called shot effect settled
AttackWith(session, attacker, defender, options, effect) ==
  IF options.called_shot /\ (IsNone(effect) \/ Get(effect) \notin CALLED_SHOT_EFFECTS)
  THEN AttackRaised(session, attacker, defender)
  ELSE AttackTotal(
         RollOrOverride(session, options.attack_roll_override),
         RollOrOverride(session, options.attack_roll_override).result
           + attacker.skill + attacker.attr + attacker.attack_bonus
           - (IF options.called_shot THEN CALLED_SHOT_PENALTY ELSE 0),
         defender.armor_rating
           + _dodge_bonus(options.reaction, options.reaction_bonus),
         effect, options, attacker, defender)

\* resolve_attack: the AttackResult, both combatants and the session after
\* the call
resolve_attack(session, attacker, defender, options) ==
  AttackWith(session, attacker, defender, options,
             IF options.called_shot /\ IsNone(options.called_shot_effect)
             THEN Some("disarm") ELSE options.called_shot_effect)

\* end_turn once the ledger is ticked: HP clamped at 0
EndTurned(combatant, ticked) ==
  [combatant |-> [combatant EXCEPT !.hp = Max(0, combatant.hp + ticked.hp_delta),
                                   !.statuses = ticked.statuses],
   info |-> [hp_delta |-> ticked.hp_delta, expired |-> ticked.expired]]

\* end_turn: the combatant after the tick and the tick's report
end_turn(combatant, tick_type) ==
  EndTurned(combatant, tick_statuses(combatant.statuses, tick_type))

(* ------------------------- gm_os/protocols.py -------------------------- *)
ProtocolId ==
  {"PROTO_CLARIFICATION", "PROTO_INVENTION", "PROTO_CATASTROPHIC",
   "PROTO_CONTENT_GAP", "PROTO_EXPLORATION", "PROTO_STAGNATION",
   "PROTO_WORLD_BOOTSTRAP", "PROTO_ARC_SEEDING", "PROTO_ROUTINE",
   "PROTO_RETCON_DISPUTE", "PROTO_RULE_EDGE_CASE", "PROTO_DOWNTIME",
   "PROTO_MEMORY_PROMOTION", "PROTO_MEMORY_RECALL"}

\* faulty variant of ProtocolEntry: the first two fields are swapped
ProtocolEntry_swapped(time_policy, risk_policy, allowed_tools, required_context) ==
  [time_policy |-> risk_policy, risk_policy |-> time_policy,
   allowed_tools |-> allowed_tools, required_context |-> required_context]

ProtocolEntry(time_policy, risk_policy, allowed_tools, required_context) ==
  [time_policy |-> time_policy, risk_policy |-> risk_policy,
   allowed_tools |-> allowed_tools, required_context |-> required_context]

\* the dict literal: one key per entry written in the source
PROTOCOL_REGISTRY ==
  "PROTO_CLARIFICATION" :>
       ProtocolEntry("freeze", "none", <<>>, <<"last_intent", "scene_snapshot">>)
  @@ "PROTO_INVENTION" :>
       ProtocolEntry("advance", "none", <<"npc_generator", "location_generator">>,
                     <<"era", "setting">>)
  @@ "PROTO_CATASTROPHIC" :>
       ProtocolEntry("freeze", "confirm_catastrophic", <<"threat_assessor">>,
                     <<"stakes", "party_state">>)
  @@ "PROTO_CONTENT_GAP" :>
       ProtocolEntry("freeze", "none", <<"lore_lookup">>,
                     <<"requested_topic", "campaign_memory">>)
  @@ "PROTO_EXPLORATION" :>
       ProtocolEntry("advance", "none", <<"map_hint", "sensory_prompt">>,
                     <<"location", "scene_snapshot">>)
  @@ "PROTO_STAGNATION" :>
       ProtocolEntry("advance", "none", <<"pace_boost">>,
                     <<"last_actions", "scene_snapshot">>)
  @@ "PROTO_WORLD_BOOTSTRAP" :>
       ProtocolEntry("freeze", "none", <<"world_seed">>,
                     <<"era", "setting", "player_prefs">>)
  @@ "PROTO_ARC_SEEDING" :>
       ProtocolEntry("advance", "none", <<"plot_seed">>, <<"session_setup", "npcs">>)
  @@ "PROTO_ROUTINE" :>
       ProtocolEntry("advance", "none", <<>>, <<"scene_snapshot">>)
  @@ "PROTO_RETCON_DISPUTE" :>
       ProtocolEntry("freeze", "confirm_catastrophic", <<"log_review">>,
                     <<"turn_log", "player_statement">>)
  @@ "PROTO_RULE_EDGE_CASE" :>
       ProtocolEntry("freeze", "none", <<"rules_lookup">>,
                     <<"rule_context", "character_state">>)
  @@ "PROTO_DOWNTIME" :>
       ProtocolEntry("advance", "none", <<"downtime_generator">>,
                     <<"party_state", "resources">>)
  @@ "PROTO_MEMORY_PROMOTION" :>
       ProtocolEntry("freeze", "none", <<"memory_writer">>, <<"session_summary">>)
  @@ "PROTO_MEMORY_RECALL" :>
       ProtocolEntry("freeze", "none", <<>>, <<"turn_log", "session_summary">>)

VALID_TIME_POLICIES == {"freeze", "advance"}

(* --------------------------- gm_os/router.py --------------------------- *)
RoutedDecision(protocol_id, freeze_time, execute, reason, dev_report, ooc_questions) ==
  [protocol_id |-> protocol_id, freeze_time |-> freeze_time, execute |-> execute,
   reason |-> reason, dev_report |-> dev_report, ooc_questions |-> ooc_questions]

\* faulty variant of SAFE_PROTOCOLS: PROTO_DOWNTIME is missing
SAFE_PROTOCOLS_short ==
  {"PROTO_CLARIFICATION", "PROTO_ROUTINE", "PROTO_EXPLORATION",
   "PROTO_CONTENT_GAP", "PROTO_RULE_EDGE_CASE", "PROTO_MEMORY_PROMOTION",
   "PROTO_MEMORY_RECALL"}

SAFE_PROTOCOLS ==
  {"PROTO_CLARIFICATION", "PROTO_ROUTINE", "PROTO_EXPLORATION", "PROTO_DOWNTIME",
   "PROTO_CONTENT_GAP", "PROTO_RULE_EDGE_CASE", "PROTO_MEMORY_PROMOTION",
   "PROTO_MEMORY_RECALL"}

\* faulty variant of _resolve_protocol_id: an unknown value falls back to
\* the routine protocol
_resolve_protocol_id_default(value) ==
  IF value \in ProtocolId THEN Some(value) ELSE Some("PROTO_ROUTINE")

\* ProtocolId(value): the member whose value is exactly the string, else None
_resolve_protocol_id(value) == IF value \in ProtocolId THEN Some(value) ELSE None

\* A settings value is absent/None ("none"), a bool ("bool:...") or a str ("str:...").
DevFlagBools == {"bool:true", "bool:false"}
DevFlagStrs == {"str:true", "str:TRUE", "str:yes"}
\* str.lower() on the flag strings
Lower(v) == IF v = "str:TRUE" THEN "str:true" ELSE v

\* the flag test shared by router._dev_mode_enabled and turn._dev_mode_enabled
DevFlagOf(settings) ==
  LET dev_flag == IF settings.dev_mode_enabled = "none"
                  THEN settings.dev_mode ELSE settings.dev_mode_enabled
  IN IF dev_flag \in DevFlagBools THEN dev_flag = "bool:true"
     ELSE IF dev_flag \in DevFlagStrs THEN Lower(dev_flag) = "str:true"
     ELSE FALSE

\* router._dev_mode_enabled(session_state)
RouterDevModeEnabled(session_state) == DevFlagOf(session_state.settings)

RestateQuestion == "Protocol not recognized. Can you restate your request?"
FocusQuestion == "I need a bit more detail to proceed safely. What should I focus on?"

\* the decision of an out-of-character envelope
RouteOoc(envelope) ==
  RoutedDecision("PROTO_CLARIFICATION", TRUE, FALSE, "ooc", None,
                 Some(envelope.ooc_questions))

\* the decision once the out-of-character rule did not apply
RouteProtocol(envelope, session_state) ==
  LET protocol_id == _resolve_protocol_id(envelope.protocol_id)
  IN IF IsNone(protocol_id)
     THEN IF RouterDevModeEnabled(session_state)
          THEN RoutedDecision("PROTO_RULE_EDGE_CASE", TRUE, FALSE,
                 "unknown_protocol",
                 Some([error |-> "Unknown protocol_id",
                       protocol_id |-> envelope.protocol_id]),
                 None)
          ELSE RoutedDecision("PROTO_CLARIFICATION", TRUE, FALSE,
                 "unknown_protocol", None, Some(<<RestateQuestion>>))
     ELSE IF envelope.confidence = "low" /\ Get(protocol_id) \notin SAFE_PROTOCOLS
          THEN RoutedDecision("PROTO_CLARIFICATION", TRUE, FALSE,
                 "low_confidence", None, Some(<<FocusQuestion>>))
          ELSE RoutedDecision(Get(protocol_id),
                 PROTOCOL_REGISTRY[Get(protocol_id)].time_policy = "freeze",
                 TRUE, "ok", None, None)

\* faulty variant of route_envelope: the questions of an in-character
\* envelope are ignored
route_envelope_mode_only(envelope, session_state) ==
  IF envelope.mode = "ooc"
  THEN RouteOoc(envelope)
  ELSE RouteProtocol(envelope, session_state)

\* faulty variant of route_envelope: the protocol id is resolved before the
\* out-of-character rule
route_envelope_unknown_first(envelope, session_state) ==
  IF IsNone(_resolve_protocol_id(envelope.protocol_id))
  THEN RouteProtocol(envelope, session_state)
  ELSE IF envelope.mode = "ooc" \/ Len(envelope.ooc_questions) > 0
  THEN RouteOoc(envelope)
  ELSE RouteProtocol(envelope, session_state)

route_envelope(envelope, session_state) ==
  IF envelope.mode = "ooc" \/ Len(envelope.ooc_questions) > 0
  THEN RouteOoc(envelope)
  ELSE RouteProtocol(envelope, session_state)

(* ---------------------------- rules/turn.py ---------------------------- *)
\* Intent (llm/schemas.py), with the fields the pipeline reads.  A str | None
\* field the code only tests with `or` is a string, "" standing for None.
Intent(action_type, dialogue, reason, resolution) ==
  [action_type |-> action_type, dialogue |-> dialogue, reason |-> reason,
   resolution |-> resolution, power_used |-> None, item_used |-> None]

TurnResult(intent, rolls, outcome, state_diff, narration, suggested_actions, needs_clarification, clarification_question, clarification_questions, project_created, validation_errors) ==
  [intent |-> intent, rolls |-> rolls, outcome |-> outcome,
   state_diff |-> state_diff, narration |-> narration,
   suggested_actions |-> suggested_actions,
   needs_clarification |-> needs_clarification,
   clarification_question |-> clarification_question,
   clarification_questions |-> clarification_questions,
   project_created |-> project_created,
   validation_errors |-> validation_errors]

\* the empty dict {} of a state diff
EmptyDiff == <<>>

\* what one turn leaves behind: the persisted records, the turn's SessionState
\* object (None when the turn created none), the TurnResult and the router's
\* decision (None when the turn did not route)
Out(session, character, store, dice, result) ==
  [session |-> session, character |-> character, store |-> store,
   dice |-> dice, result |-> result, decision |-> None]

\* the player texts drawn, and the substring tests the code makes on them
RecallText == "what do i know about this place"
SpaceshipText == "i board the spaceship"
PlainText == "attack the guard"
IsSpaceshipText(text) == text = SpaceshipText

_is_memory_recall_request(player_text) == player_text = RecallText

base_actions == [actions |-> 1, reactions |-> 1]

\* attributes.resources with the defaults filled in (a copy)
_ensure_resources(attributes) ==
  IF IsNone(attributes.resources) THEN base_actions ELSE Get(attributes.resources)

_extract_roll_index(session) == session.roll_index

_extract_era_name(session) == session.era

\* era_name.strip().lower() == "space"
IsSpaceEra(era_name) == era_name \in {"Space", "space"}

EntranceSummary == "You are at the entrance of Test."

\* current_scene is [established, summary]; a missing current_scene is
\* [established |-> FALSE, summary |-> ""]
_ensure_scene_state(session) ==
  IF session.current_scene.established /\ session.current_scene.summary # ""
  THEN session
  ELSE LET summary == IF session.scene_text # "" THEN session.scene_text
                      ELSE IF session.scene # "" THEN session.scene
                      ELSE ""
       IN [session EXCEPT !.current_scene =
             [established |-> TRUE,
              summary |-> IF summary # "" THEN summary ELSE EntranceSummary]]

_extract_scene_text(session) ==
  IF session.scene_text # "" THEN session.scene_text
  ELSE IF session.scene # "" THEN session.scene
  ELSE session.current_scene.summary

_has_scene_text(session) == session.scene_text # "" \/ session.scene # ""

\* the setdefault calls find both keys of an existing current_scene
_store_scene_text(session, text) == [session EXCEPT !.scene_text = text]

FallbackSceneText == "Space - Test. Dim light flickers."

\* faulty variant of _ensure_scene_text: a narration, when there is one,
\* replaces the stored scene text
_ensure_scene_text_overwrite(session, narration) ==
  IF narration # ""
  THEN [text |-> narration, session |-> _store_scene_text(session, narration)]
  ELSE LET existing == _extract_scene_text(session)
       IN [text |-> IF existing # "" THEN existing ELSE FallbackSceneText,
           session |-> session]

\* returns the scene text and the session it leaves
_ensure_scene_text(session, narration) ==
  LET existing == _extract_scene_text(session)
  IN IF existing # ""
     THEN [text |-> existing,
           session |-> IF session.scene_text = ""
                       THEN [session EXCEPT !.scene_text = existing]
                       ELSE session]
     ELSE LET s1 == _ensure_scene_state(session)
              summary == s1.current_scene.summary
          IN IF summary # ""
             THEN [text |-> summary, session |-> _store_scene_text(s1, summary)]
             ELSE LET text == IF narration # "" THEN narration ELSE FallbackSceneText
                  IN [text |-> text, session |-> _store_scene_text(s1, text)]

AvailableActions ==
  <<"explore", "scene_request", "interact", "move", "attack", "use_power",
    "buy_item", "ask_gm">>

Range(s) == {s[i] : i \in DOMAIN s}

SuggestionCandidates ==
  <<"explore", "interact", "move", "attack", "scene_request", "ask_gm">>

RECURSIVE PadExplore(_)
PadExplore(s) == IF Len(s) < 3 THEN PadExplore(Append(s, "explore")) ELSE s

\* the action types of the suggested actions, in order
_build_suggested_actions(available_actions) ==
  LET filtered == PadExplore(SelectSeq(SuggestionCandidates,
                                       LAMBDA a : a \in Range(available_actions)))
  IN SubSeq(filtered, 1, IF Len(filtered) < 5 THEN Len(filtered) ELSE 5)

\* the lines of the narration
_build_scene_update(scene_text, suggested_actions) ==
  <<scene_text, "No immediate changes are evident.",
    "Choose a next action from the options below.">>
  \o (IF Len(suggested_actions) = 0 THEN <<>> ELSE <<"Available actions:">>)
  \o suggested_actions

DefaultClarifyQuestion == "Please clarify your intended action."

\* faulty variant of _clarify_turn_result: the resources handed in are
\* reported in the state diff
_clarify_turn_result_diff(intent, session, character, store, narration, validation_errors, clarification_questions) ==
  LET given == IF IsNone(clarification_questions) THEN <<>>
               ELSE Get(clarification_questions)
      question == IF intent.reason # "" THEN intent.reason
                  ELSE IF intent.dialogue # "" THEN intent.dialogue
                  ELSE DefaultClarifyQuestion
      questions == IF Len(given) = 0 THEN <<question>> ELSE given
      scene == _ensure_scene_text(session, narration)
      suggested_actions == _build_suggested_actions(AvailableActions)
      text == _build_scene_update(scene.text, suggested_actions)
  IN Out(scene.session, character, store, None,
         TurnResult(intent, <<>>,
                    [kind |-> "clarify", message |-> question],
                    [character |-> [resources |-> _ensure_resources(character)]],
                    text, suggested_actions, TRUE,
                    Some(question), questions, None, validation_errors))

\* clarification_questions is Optional: None or a list
_clarify_turn_result(intent, session, character, store, narration, validation_errors, clarification_questions) ==
  LET given == IF IsNone(clarification_questions) THEN <<>>
               ELSE Get(clarification_questions)
      question == IF intent.reason # "" THEN intent.reason
                  ELSE IF intent.dialogue # "" THEN intent.dialogue
                  ELSE DefaultClarifyQuestion
      questions == IF Len(given) = 0 THEN <<question>> ELSE given
      scene == _ensure_scene_text(session, narration)
      suggested_actions == _build_suggested_actions(AvailableActions)
      text == _build_scene_update(scene.text, suggested_actions)
  IN Out(scene.session, character, store, None,
         TurnResult(intent, <<>>,
                    [kind |-> "clarify", message |-> question],
                    EmptyDiff, text, suggested_actions, TRUE,
                    Some(question), questions, None, validation_errors))

ChooseActionQuestion == "Choose an action to proceed."

_scene_intro_result(session, character, store, narration) ==
  LET scene == _ensure_scene_text(session, narration)
      suggested_actions == _build_suggested_actions(AvailableActions)
      intent == Intent("ask_clarifying_question", ChooseActionQuestion, "", "")
      text == <<scene.text, "Choose a next action from the options below.",
                "Available actions:">> \o suggested_actions
  IN Out(scene.session, character, store, None,
         TurnResult(intent, <<>>, [kind |-> "scene_established"],
                    EmptyDiff, text, suggested_actions, TRUE,
                    Some(ChooseActionQuestion), <<ChooseActionQuestion>>,
                    None, <<>>))

\* faulty variant of _record_memory_recall_note: the note is stored as verified
_record_memory_recall_note_verified(session, player_text) ==
  [session EXCEPT !.gm_memory_notes =
     Append(@, [player_text |-> player_text, verified |-> TRUE])]

_record_memory_recall_note(session, player_text) ==
  [session EXCEPT !.gm_memory_notes =
     Append(@, [player_text |-> player_text, verified |-> FALSE])]

\* the rumor texts of the first `limit` rumor threads
_collect_rumors(threads, limit) ==
  LET rumors == SelectSeq(threads, LAMBDA t : t.type = "rumor")
  IN SubSeq(rumors, 1, IF Len(rumors) < limit THEN Len(rumors) ELSE limit)

_memory_recall_result(session, character, store, player_text, narration, validation_errors) ==
  LET s1 == _record_memory_recall_note(session, player_text)
      lines == <<"Out of character: Here's what you currently know:">>
      text == IF narration # "" THEN <<narration>> ELSE lines
  IN Out(s1, character, store, None,
         TurnResult(Intent("ask_gm", "Memory recall.", "", ""), <<>>,
                    [kind |-> "memory_recall",
                     rumors |-> _collect_rumors(store.threads, 3)],
                    EmptyDiff, text, <<"explore", "interact", "move">>, FALSE,
                    None, <<>>, None, validation_errors))

\* turn._dev_mode_enabled(session)
_dev_mode_enabled(session) == DevFlagOf(session.settings)

_rule_edge_case_result(session, character, store, validation_errors) ==
  IF _dev_mode_enabled(session)
  THEN Out(session, character, store, None,
           TurnResult(Intent("ask_clarifying_question",
                             "Please provide a ruling for this edge case.", "", ""),
                      <<>>, [kind |-> "rule_edge_case", ruling_note |-> FALSE],
                      EmptyDiff, <<"OOC: Mechanics edge case detected.">>,
                      <<"ask_gm", "ask_gm">>, TRUE,
                      Some("Please provide a ruling for this edge case."),
                      <<"Provide a ruling.", "Add a schema/rule addition.">>,
                      None, validation_errors))
  ELSE Out(session, character, store, None,
           TurnResult(Intent("ask_gm", "Proceed under conservative ruling.", "", ""),
                      <<>>, [kind |-> "rule_edge_case", ruling_note |-> TRUE],
                      EmptyDiff, <<"OOC: Mechanics edge case detected.">>,
                      _build_suggested_actions(AvailableActions), FALSE,
                      None, <<>>, None, validation_errors))

\* creators: "db" (the callbacks execute_turn passes), "none" (no callbacks),
\* "project_fails" (the callbacks of "db", project_creator raising)
HasCreators(creators) == creators # "none"

_content_gap_result(session, character, store, narration, creators, validation_errors) ==
  IF ~_dev_mode_enabled(session)
  THEN Out(session, character, store, None,
           TurnResult(Intent("ask_clarifying_question",
                        "This system is missing. Do you want to proceed without it?",
                        "", ""),
                      <<>>, [kind |-> "content_gap"], EmptyDiff,
                      <<"OOC: Missing system content.">>,
                      _build_suggested_actions(AvailableActions), TRUE,
                      Some("This system is missing. Do you want to proceed without it?"),
                      <<"Proceed with conservative fallback.",
                        "Pause and define the missing system.">>,
                      None, validation_errors))
  ELSE IF ~HasCreators(creators)
  THEN _clarify_turn_result(
         Intent("ask_clarifying_question", "", "System draft creation unavailable.", ""),
         session, character, store, narration, validation_errors,
         Some(<<"System draft creation is unavailable.">>))
  ELSE Out(session, character,
           [store EXCEPT !.system_drafts = Append(@, [name |-> "New System"])],
           None,
           TurnResult(Intent("ask_clarifying_question",
                             "Do you want to activate this system draft?", "", ""),
                      <<>>, [kind |-> "content_gap"], EmptyDiff,
                      <<"OOC: Missing system content. Draft proposed.">>,
                      <<"ask_gm", "ask_gm">>, TRUE,
                      Some("Do you want to activate this system draft?"),
                      <<"Accept the draft.", "Revise the draft.">>,
                      None, validation_errors))

\* the entries of the log cited (the last `limit`)
_build_turn_citations(session, limit) ==
  LET log == session.turn_log
  IN SubSeq(log, IF Len(log) > limit THEN Len(log) - limit + 1 ELSE 1, Len(log))

_retcon_dispute_result(session, character, store, validation_errors) ==
  Out(session, character, store, None,
      TurnResult(Intent("ask_clarifying_question",
                        "Which resolution should we apply?", "", ""),
                 <<>>,
                 [kind |-> "retcon_dispute",
                  citations |-> _build_turn_citations(session, 5)],
                 EmptyDiff, <<"OOC: Retcon dispute.">>, <<"ask_gm", "ask_gm">>,
                 TRUE, Some("Which resolution should we apply?"),
                 <<"Clarify misunderstanding", "Retcon with minimal disruption">>,
                 None, validation_errors))

\* the sorted tag set, kept as the pair that determines it
_extract_exploration_tags(session, player_text) ==
  [era |-> session.era, text |-> player_text]

\* int(sha256("|".join(tags)).hexdigest()[:8], 16), tabulated by small
\* stand-in values that differ between the tag sets drawn
_stable_hash_tags(tags) ==
  (IF IsSpaceEra(tags.era) THEN 0 ELSE 1)
  + (CASE tags.text = PlainText -> 0
       [] tags.text = SpaceshipText -> 2
       [] OTHER -> 4)

Gradients == <<"myth", "partial", "lost", "false", "dangerous">>

\* the value that seeds the choice of the gradient
GradientSeed(session, tags) ==
  session.rng_seed + _stable_hash_tags(tags) + session.exploration_index

\* faulty variant of _choose_truth_gradient: the exploration index is left
\* out of the seed
_choose_truth_gradient_unindexed(session, tags) ==
  [gradient |->
     Gradients[RandBelow(NewRandom(session.rng_seed + _stable_hash_tags(tags)),
                         Len(Gradients)).value + 1],
   index |-> session.exploration_index]

_choose_truth_gradient(session, tags) ==
  [gradient |->
     Gradients[RandBelow(NewRandom(GradientSeed(session, tags)),
                         Len(Gradients)).value + 1],
   index |-> session.exploration_index]

_bump_exploration_index(session, current_index) ==
  [session EXCEPT !.exploration_index = current_index + 1]

_build_thread_from_discovery(discovery, gradient) ==
  [type |-> CASE gradient \in {"myth", "false"} -> "rumor"
              [] gradient = "partial" -> "hook"
              [] gradient = "lost" -> "foreshadow"
              [] OTHER -> "consequence",
   status |-> "open",
   urgency |-> CASE gradient = "partial" -> "med"
                 [] gradient = "dangerous" -> "high"
                 [] OTHER -> "low",
   discovery_id |-> discovery.id]

_exploration_result(session, character, store, player_text, narration, creators, validation_errors) ==
  LET tags == _extract_exploration_tags(session, player_text)
      chosen == _choose_truth_gradient(session, tags)
      \* the payload, or the row discovery_creator returns for it
      discovery == [id |-> IF HasCreators(creators)
                           THEN Some(Len(store.discoveries) + 1) ELSE None,
                    gradient |-> chosen.gradient, tags |-> tags]
      thread == _build_thread_from_discovery(discovery, chosen.gradient)
      store1 == IF HasCreators(creators)
                THEN [store EXCEPT !.discoveries = Append(@, discovery),
                                   !.threads = Append(@, thread)]
                ELSE store
      s1 == _bump_exploration_index(session, chosen.index)
  IN Out(s1, character, store1, None,
         TurnResult(Intent("explore", "", "", ""), <<>>,
                    [kind |-> "exploration", discovery |-> discovery,
                     thread |-> thread],
                    EmptyDiff, <<narration>>,
                    _build_suggested_actions(AvailableActions), FALSE,
                    None, <<>>, None, validation_errors))

\* faulty variant of _choose_stagnation_action: escalate_clock is an option
\* whether or not a clock is unfinished
_choose_stagnation_action_any(session, open_threads, active_clocks) ==
  LET options == <<"opportunity", "escalate_clock">>
                 \o (IF Len(open_threads) > 0 THEN <<"thread_consequence">> ELSE <<>>)
      seed == session.rng_seed + session.stagnation_index + Len(options) * 13
      d == RandBelow(NewRandom(seed), Len(options))
  IN [choice |-> options[d.value + 1],
      session |-> [session EXCEPT !.stagnation_index = @ + 1]]

\* the chosen action and the session with stagnation_index bumped
_choose_stagnation_action(session, open_threads, active_clocks) ==
  LET stagnation_index == session.stagnation_index
      options == <<"opportunity">>
                 \o (IF Len(active_clocks) > 0 THEN <<"escalate_clock">> ELSE <<>>)
                 \o (IF Len(open_threads) > 0 THEN <<"thread_consequence">> ELSE <<>>)
      seed == session.rng_seed + stagnation_index + Len(options) * 13
      d == RandBelow(NewRandom(seed), Len(options))
  IN [choice |-> options[d.value + 1],
      session |-> [session EXCEPT !.stagnation_index = stagnation_index + 1]]

_update_pacing_tag(session, tag) == [session EXCEPT !.pacing_tag = tag]

\* index of the first clock with steps_done < steps_total, 0 when there is none
FirstActiveClock(clocks) ==
  LET active == {i \in DOMAIN clocks : clocks[i].steps_done < clocks[i].steps_total}
  IN IF active = {} THEN 0 ELSE CHOOSE i \in active : \A j \in active : i <= j

_build_stagnation_hook(action) ==
  [id |-> None, type |-> "hook", status |-> "open", urgency |-> "high",
   origin |-> "stagnation"]

_stagnation_result(session, character, store, narration, creators, validation_errors) ==
  LET open_threads == SelectSeq(store.threads, LAMBDA t : t.status = "open")
      active_clocks == SelectSeq(store.clocks,
                                 LAMBDA c : c.steps_done < c.steps_total)
      chosen == _choose_stagnation_action(session, open_threads, active_clocks)
      action == chosen.choice
      k == FirstActiveClock(store.clocks)
      store1 == IF action = "escalate_clock" /\ k > 0
                THEN [store EXCEPT !.clocks[k].steps_done =
                        IF @ + 1 < store.clocks[k].steps_total
                        THEN @ + 1 ELSE store.clocks[k].steps_total]
                ELSE store
      payload == _build_stagnation_hook(action)
      \* the payload, or the row thread_creator returns for it
      hook == IF HasCreators(creators)
              THEN [payload EXCEPT !.id = Some(Len(store.threads) + 1)]
              ELSE payload
      store2 == IF HasCreators(creators)
                THEN [store1 EXCEPT !.threads = Append(@, hook)]
                ELSE store1
      s1 == _update_pacing_tag(chosen.session, "tension")
  IN Out(s1, character, store2, None,
         TurnResult(Intent("explore", "", "", ""), <<>>,
                    [kind |-> "stagnation", action |-> action, hook |-> hook],
                    EmptyDiff, <<narration>>,
                    _build_suggested_actions(AvailableActions), FALSE,
                    None, <<>>, None, validation_errors))

\* GMPlanStep (llm/schemas.py) with the fields project creation reads; notes
\* is kept as the two substring tests made on it
GMPlanStep(type, complexity, time_cost, notes_material, notes_method, skill_used, targets) ==
  [type |-> type, complexity |-> complexity, time_cost |-> time_cost,
   notes_material |-> notes_material, notes_method |-> notes_method,
   skill_used |-> skill_used, targets |-> targets]

IsProjectStep(step) ==
  /\ step.type \in {"craft", "improvise"}
  /\ \/ (IF IsNone(step.complexity) THEN 0 ELSE Get(step.complexity)) > 1
     \/ step.time_cost \in {"hours", "days"}

\* the first project step of the plan, None when there is none
_find_project_step(plan) ==
  LET hits == SelectSeq(plan, IsProjectStep)
  IN IF Len(hits) = 0 THEN None ELSE Some(Head(hits))

_project_questions(step) ==
  LET questions ==
        (IF ~step.notes_material
         THEN <<"What materials or parts are available?">> ELSE <<>>)
        \o (IF IsNone(step.skill_used) /\ ~step.notes_method
            THEN <<"What method or approach should drive the build?">> ELSE <<>>)
        \o (IF Len(step.targets) = 0
            THEN <<"What is the specific build target?">> ELSE <<>>)
  IN SubSeq(questions, 1, IF Len(questions) < 3 THEN Len(questions) ELSE 3)

_build_project_payload(step) ==
  [type |-> IF step.type = "craft" THEN "craft" ELSE "build",
   work_units_total |->
     LET c == IF IsNone(step.complexity) \/ Get(step.complexity) = 0
              THEN 2 ELSE Get(step.complexity)
     IN IF c < 2 THEN 2 ELSE c,
   work_units_done |-> 0, status |-> "active"]

\* None when the plan holds no project step, else the turn's outcome
_maybe_create_project(envelope, session, character, store, narration, creators, validation_errors) ==
  IF IsNone(envelope.gm_plan) THEN None
  ELSE LET found == _find_project_step(Get(envelope.gm_plan))
       IN IF IsNone(found) THEN None
          ELSE IF creators = "none"
          THEN Some(_clarify_turn_result(
                 Intent("ask_clarifying_question", "",
                        "Project creation unavailable.", ""),
                 session, character, store, narration, validation_errors,
                 Some(<<"Project tooling is not available yet.">>)))
          ELSE IF creators = "project_fails"
          THEN Some(_clarify_turn_result(
                 Intent("ask_clarifying_question", "", "Project creation failed.", ""),
                 session, character, store, narration,
                 Append(validation_errors, "project_creator raised"),
                 Some(<<"Project creation failed. Try again?">>)))
          ELSE LET step == Get(found)
                   project == _build_project_payload(step)
                   questions == _project_questions(step)
               IN Some(Out(session, character,
                           [store EXCEPT !.projects = Append(@, project)], None,
                           TurnResult(
                             Intent("project_create", "", "", ""), <<>>,
                             [kind |-> "project_created"], EmptyDiff,
                             <<narration>>, <<>>, Len(questions) > 0,
                             IF Len(questions) > 0 THEN Some(Head(questions))
                             ELSE None,
                             questions, Some(project), validation_errors)))

_should_log_retcon(intent, session) ==
  /\ intent.action_type = "ask_gm"
  /\ intent.resolution = "retcon"
  /\ _dev_mode_enabled(session)

_log_retcon_event(session, intent) ==
  [session EXCEPT !.retcon_log = Append(@,
     [turn_index |-> session.turn_index,
      note |-> IF intent.dialogue # "" THEN intent.dialogue
               ELSE IF intent.reason # "" THEN intent.reason
               ELSE "retcon requested"])]

\* faulty variant of _validate_impossible_action: only the player's text is
\* searched for a spaceship, not the intent's dialogue
_validate_impossible_action_text(intent, era_name, player_text) ==
  IF ~IsSpaceEra(era_name) /\ IsSpaceshipText(player_text)
  THEN "That action isn't possible. You are in a " \o era_name
       \o " setting. You do not possess a spaceship."
  ELSE ""

\* the rejection message, "" when the action is possible
_validate_impossible_action(intent, era_name, player_text) ==
  IF ~IsSpaceEra(era_name)
     /\ (IsSpaceshipText(player_text) \/ IsSpaceshipText(intent.dialogue))
  THEN "That action isn't possible. You are in a " \o era_name
       \o " setting. You do not possess a spaceship."
  ELSE ""

TurnIntent(action, actions_required) ==
  [action |-> action, target_ar |-> 10, weapon_damage |-> <<"1", "d", "6">>,
   skill_bonus |-> 0, attr_bonus |-> 0, actions_required |-> actions_required]

_intent_to_turn_intent(intent) ==
  CASE intent.action_type = "explore" -> TurnIntent("explore", 0)
    [] intent.action_type = "scene_request" -> TurnIntent("scene_request", 0)
    [] intent.action_type = "interact" -> TurnIntent("interact", 1)
    [] intent.action_type = "ask_gm" -> TurnIntent("ask_gm", 0)
    [] intent.action_type = "use_power" -> TurnIntent("use_power", 1)
    [] intent.action_type = "attack" ->
         [TurnIntent("attack", 1) EXCEPT !.target_ar = 12]
    [] intent.action_type = "move" -> TurnIntent("move", 1)
    [] intent.action_type = "buy_item" -> TurnIntent("buy_item", 1)
    [] OTHER -> TurnIntent("pass", 0)

\* faulty variant of _validate_intent: the action resources are not checked
_validate_intent_unpaid(intent, era_name, resources, available_actions) ==
  IF intent.action_type \in {"explore", "scene_request"} THEN ""
  ELSE IF Len(available_actions) > 0
          /\ intent.action_type \notin Range(available_actions)
  THEN "Action not allowed right now."
  ELSE IF intent.action_type = "use_power" /\ ~IsSpaceEra(era_name)
  THEN "Powers are locked outside the Space era."
  ELSE ""

\* the TurnError message, "" when the intent is valid
_validate_intent(intent, era_name, resources, available_actions) ==
  IF intent.action_type \in {"explore", "scene_request"} THEN ""
  ELSE IF Len(available_actions) > 0
          /\ intent.action_type \notin Range(available_actions)
  THEN "Action not allowed right now."
  ELSE IF _intent_to_turn_intent(intent).actions_required < 0
  THEN "Invalid action cost."
  ELSE IF resources.actions < _intent_to_turn_intent(intent).actions_required
  THEN "Not enough actions."
  ELSE IF intent.action_type = "use_power" /\ ~IsSpaceEra(era_name)
  THEN "Powers are locked outside the Space era."
  ELSE ""

RECURSIVE _consume_rolls(_, _)
\* for _ in range(roll_index): session_state.rng.random()
_consume_rolls(session_state, roll_index) ==
  IF roll_index <= 0 THEN session_state
  ELSE _consume_rolls([session_state EXCEPT !.rng = RandomFloat(@)], roll_index - 1)

RECURSIVE CountDraws(_)
CountDraws(log) == IF Len(log) = 0 THEN 0 ELSE Len(Head(log).rolls) + CountDraws(Tail(log))

\* faulty variant of _count_rolls: counts the turn, not its dice
_count_rolls_turn(session_state) == IF Len(session_state.turn_log) = 0 THEN 0 ELSE 1

_count_rolls(session_state) == CountDraws(session_state.turn_log)

MechanicsOutcome(kind, hit, attack_roll, damage) ==
  [kind |-> kind, hit |-> hit, attack_roll |-> attack_roll, damage |-> damage]

\* the outcome and the SessionState after the rolls (the modelled actions
\* are those _validate_intent lets through)
\* the attack outcome from the attack roll a, the hit flag and the damage d
AttackOutcome(a, hit, d) ==
  [outcome |-> MechanicsOutcome("attack", Some(hit), Some(a.result),
                                Some(d.result)),
   session_state |-> d.session]

\* the attack once the d20 roll a is made: damage is rolled on a hit
AttackDamage(intent, a, hit) ==
  AttackOutcome(a, hit,
                IF hit THEN roll(a.session, intent.weapon_damage)
                ELSE [result |-> 0, session |-> a.session])

AttackRolled(intent, a) ==
  AttackDamage(intent, a,
               a.result + intent.skill_bonus + intent.attr_bonus >= intent.target_ar)

_execute_mechanics(session_state, intent) ==
  IF intent.action = "attack"
  THEN AttackRolled(intent, roll_d20(session_state))
  ELSE [outcome |-> MechanicsOutcome(intent.action, None, None, None),
        session_state |-> session_state]

_compact_turn_log_entry(intent, rolls, outcome) ==
  [action |-> intent.action_type, power |-> intent.power_used,
   item |-> intent.item_used,
   rolls |-> [i \in DOMAIN rolls |-> [f |-> rolls[i].formula, r |-> rolls[i].result]],
   outcome |-> [hit |-> outcome.hit, damage |-> outcome.damage]]

_append_turn_log(session, intent, rolls, outcome, roll_index) ==
  LET log == Append(session.turn_log, _compact_turn_log_entry(intent, rolls, outcome))
  IN [session EXCEPT !.turn_log = log, !.roll_index = roll_index,
                     !.turn_index = Some(Len(log))]

_build_character_state_diff(character, resources, outcome) ==
  [resources |-> resources, hp |-> character.hp,
   last_roll |-> outcome.attack_roll, last_damage |-> outcome.damage]

_is_dead(state) == IF IsNone(state.hp) THEN FALSE ELSE Get(state.hp) <= 0

ImpossibleOptions ==
  <<"Flee the area on foot.", "Use known equipment.",
    "Attempt something unconventional within the scene.">>

\* _execute_intent_pipeline after validation, m being what _execute_mechanics
\* returned on the fast-forwarded SessionState: resources are spent, the
\* turn log is appended and the result is built
MechanicsApplied(session, character, store, intent, narration, validation_errors, resources, roll_index, mechanics_intent, m) ==
  LET outcome == m.outcome
      resources1 == [resources EXCEPT
                       !.actions = @ - mechanics_intent.actions_required]
      character1 == [character EXCEPT
                       !.resources = Some(resources1),
                       !.last_roll = outcome.attack_roll,
                       !.last_damage = outcome.damage]
      rolls == m.session_state.turn_log
      roll_index1 == roll_index + _count_rolls(m.session_state)
      session1 == _append_turn_log(session, intent, rolls, outcome, roll_index1)
      state_diff ==
        [character |-> _build_character_state_diff(character1, resources1, outcome),
         session |-> [roll_index |-> roll_index1]]
  IN Out(session1, character1, store, Some(m.session_state),
         TurnResult(intent, rolls,
                    [kind |-> "mechanics", mechanics |-> outcome,
                     death |-> _is_dead(state_diff.character)],
                    state_diff, <<narration>>,
                    _build_suggested_actions(AvailableActions), FALSE,
                    None, <<>>, None, validation_errors))

_execute_intent_pipeline(session0, character, store, intent, player_text, narration, validation_errors) ==
  LET session == IF _should_log_retcon(intent, session0)
                 THEN _log_retcon_event(session0, intent) ELSE session0
      era_name == _extract_era_name(session)
      impossible_reason == _validate_impossible_action(intent, era_name, player_text)
      resources == _ensure_resources(character)
      error == _validate_intent(intent, era_name, resources, AvailableActions)
  IN IF impossible_reason # ""
     THEN _clarify_turn_result(
            Intent("ask_clarifying_question", "", impossible_reason, ""),
            session, character, store, narration,
            Append(validation_errors, impossible_reason),
            Some(ImpossibleOptions))
     ELSE IF intent.action_type \in {"ask_clarifying_question", "invalid"}
     THEN _clarify_turn_result(intent, session, character, store, narration,
                               validation_errors, None)
     ELSE IF error # ""
     THEN _clarify_turn_result(
            Intent("ask_clarifying_question", "", error, ""),
            session, character, store, narration,
            Append(validation_errors, error), None)
     ELSE MechanicsApplied(
            session, character, store, intent, narration, validation_errors,
            resources, _extract_roll_index(session), _intent_to_turn_intent(intent),
            _execute_mechanics(
              _consume_rolls(SessionState(session.rng_seed),
                             _extract_roll_index(session)),
              _intent_to_turn_intent(intent)))

\* faulty variant of DecisionClarifies: a frozen decision that executes is
\* passed on to the intent pipeline
DecisionClarifies_execute_only(decision) == ~decision.execute

\* a frozen or non-executing decision is answered by a clarification
DecisionClarifies(decision) == decision.freeze_time \/ ~decision.execute

FallbackIntent ==
  Intent("ask_clarifying_question", "Could you clarify your intended action?", "", "")

\* llm: what the client returns in this turn: envelope and intent are
\* Optional (None: the call raises), narration is the text of every
\* generate_narration call
execute_turn_for_state(session0, character, store, player_text, intent_override, llm, creators) ==
  LET session == _ensure_scene_state(session0)
  IN IF _is_memory_recall_request(player_text)
     THEN _memory_recall_result(session, character, store, player_text,
                                llm.narration, <<>>)
     ELSE IF ~_has_scene_text(session)
     THEN _scene_intro_result(session, character, store, llm.narration)
     ELSE IF ~IsNone(intent_override)
     THEN _execute_intent_pipeline(session, character, store, Get(intent_override),
                                   player_text, llm.narration, <<>>)
     ELSE IF IsNone(llm.envelope)
     THEN _clarify_turn_result(
            Intent("ask_clarifying_question", "",
                   "Turn envelope could not be generated.", ""),
            session, character, store, llm.narration,
            <<"generate_turn_envelope raised">>,
            Some(<<"Could you clarify what you want to do next?">>))
     ELSE
       LET envelope == Get(llm.envelope)
           decision == route_envelope(envelope, [settings |-> session.settings])
           project == IF IsNone(envelope.gm_plan) THEN None
                      ELSE _maybe_create_project(envelope, session, character,
                                                 store, llm.narration, creators,
                                                 <<>>)
           extracted == IF IsNone(llm.intent)
                        THEN [intent |-> FallbackIntent,
                              validation_errors |-> <<"extract_intent raised">>]
                        ELSE [intent |-> Get(llm.intent),
                              validation_errors |-> <<>>]
           Routed(out) == [out EXCEPT !.decision = Some(decision)]
       IN Routed(
          CASE decision.protocol_id = "PROTO_RETCON_DISPUTE" ->
                 _retcon_dispute_result(session, character, store, <<>>)
            [] decision.protocol_id = "PROTO_RULE_EDGE_CASE" ->
                 _rule_edge_case_result(session, character, store, <<>>)
            [] decision.protocol_id = "PROTO_CONTENT_GAP" ->
                 _content_gap_result(session, character, store, llm.narration,
                                     creators, <<>>)
            [] decision.protocol_id = "PROTO_EXPLORATION" ->
                 _exploration_result(session, character, store, player_text,
                                     llm.narration, creators, <<>>)
            [] decision.protocol_id = "PROTO_MEMORY_RECALL" ->
                 _memory_recall_result(session, character, store, player_text,
                                       llm.narration, <<>>)
            [] decision.protocol_id = "PROTO_STAGNATION" ->
                 _stagnation_result(session, character, store, llm.narration,
                                    creators, <<>>)
            [] OTHER ->
                 IF DecisionClarifies(decision)
                 THEN _clarify_turn_result(
                        Intent("ask_clarifying_question", "",
                               IF decision.reason # "" THEN decision.reason
                               ELSE "clarification", ""),
                        session, character, store, llm.narration, <<>>,
                        Some(IF IsNone(decision.ooc_questions)
                                \/ Len(Get(decision.ooc_questions)) = 0
                             THEN <<ChooseActionQuestion>>
                             ELSE Get(decision.ooc_questions)))
                 ELSE IF ~IsNone(project) THEN Get(project)
                 ELSE _execute_intent_pipeline(session, character, store,
                                               extracted.intent, player_text,
                                               llm.narration,
                                               extracted.validation_errors))

(* --------------------- rules/character.py, app/main.py ------------------ *)
\* respawn_character: hp raised to at least 1 when absent or <= 0, the
\* action resources reset to the defaults
respawn_character(character) ==
  [character EXCEPT
     !.hp = IF IsNone(@) \/ Get(@) <= 0 THEN Some(1) ELSE @,
     !.resources = Some([_ensure_resources(character) EXCEPT
                           !.actions = base_actions.actions,
                           !.reactions = base_actions.reactions])]

(* --------------------------- gm_os/memory.py --------------------------- *)
\* the number of turn-log entries a compaction keeps
RECENT_TURN_LIMIT == 30

\* the turn_count_threshold execute_turn passes
TurnCountThreshold == 100

\* promote_memories_for_session, as far as the turn log goes: a log that has
\* reached the threshold and is longer than the recent window is cut down to
\* its recent entries (the summaries and memory cards it also writes are no
\* part of the modelled session)
promote_memories_for_session(session, turn_count_threshold) ==
  LET log == session.turn_log
  IN IF Len(log) = 0 THEN session
     ELSE IF Len(log) >= turn_count_threshold /\ Len(log) > RECENT_TURN_LIMIT
     THEN [session EXCEPT
             !.turn_log = SubSeq(log, Len(log) - RECENT_TURN_LIMIT + 1, Len(log))]
     ELSE session

\* the characters a rolling summary may hold
ROLLING_SUMMARY_LIMIT == 800
SUMMARY_SEPARATOR == <<" ", "|", " ">>

\* str(value) of the hit of an outcome: None or a bool
PyStr(value) ==
  IF IsNone(value) THEN <<"N", "o", "n", "e">> ELSE IF Get(value) THEN <<"T", "r", "u", "e">> ELSE <<"F", "a", "l", "s", "e">>

\* " ".join(parts)
RECURSIVE JoinWith(_, _)
JoinWith(parts, sep) ==
  IF Len(parts) = 0 THEN <<>>
  ELSE IF Len(parts) = 1 THEN parts[1]
  ELSE parts[1] \o sep \o JoinWith(Tail(parts), sep)

\* the part f"{key}={text}" when the value is set, no part otherwise
FactPart(key, present, text) == IF present THEN <<key \o <<"=">> \o text>> ELSE <<>>

\* _fact_line(entry): action, power and item when truthy, hit when the
\* outcome has the key, damage when it is not None
_fact_line(entry) ==
  JoinWith(FactPart(<<"a", "c", "t", "i", "o", "n">>, Len(entry.action) > 0, entry.action)
             \o FactPart(<<"p", "o", "w", "e", "r">>, Len(entry.power) > 0, entry.power)
             \o FactPart(<<"i", "t", "e", "m">>, Len(entry.item) > 0, entry.item)
             \o FactPart(<<"h", "i", "t">>, TRUE, PyStr(entry.outcome.hit))
             \o FactPart(<<"d", "a", "m", "a", "g", "e">>, ~IsNone(entry.outcome.damage),
                         IF IsNone(entry.outcome.damage) THEN <<>>
                         ELSE IntStr(Get(entry.outcome.damage))),
           <<" ">>)

\* the facts of the entries, empty lines left out
_facts_from_entries(entries) ==
  SelectSeq([i \in 1..Len(entries) |-> _fact_line(entries[i])],
            LAMBDA fact : Len(fact) > 0)

\* the least member of a non-empty set of integers
SetMin(S) == CHOOSE i \in S : \A j \in S : i <= j

\* the positions from which the separator is read in the text
SeparatorAt(text, sep) ==
  {i \in 1..(Len(text) - Len(sep) + 1) : SubSeq(text, i, i + Len(sep) - 1) = sep}

\* text.split(sep) from position from on, given the positions of sep
RECURSIVE SplitFrom(_, _, _, _)
SplitFrom(text, w, from, at) ==
  IF {i \in at : i >= from} = {} THEN <<SubSeq(text, from, Len(text))>>
  ELSE <<SubSeq(text, from, SetMin({i \in at : i >= from}) - 1)>>
       \o SplitFrom(text, w, SetMin({i \in at : i >= from}) + w, at)

\* text.split(sep)
Split(text, sep) == SplitFrom(text, Len(sep), 1, SeparatorAt(text, sep))

\* the positions _dedupe_facts keeps: those of a non-empty fact not seen at
\* an earlier position
FirstSeen(facts) ==
  {i \in 1..Len(facts) :
     Len(facts[i]) > 0 /\ \A j \in 1..(i - 1) : facts[j] # facts[i]}

\* the members of the sequence at the positions of the set, in order
AtPositions(seq, at) ==
  [k \in 1..Cardinality(at) |->
     seq[CHOOSE i \in at : Cardinality({j \in at : j <= i}) = k]]

\* _dedupe_facts: the first occurrence of every non-empty fact, in order
_dedupe_facts(facts) == AtPositions(facts, FirstSeen(facts))

\* the loop of _trim_facts over facts[1..k], latest first: a fact that would
\* pass the limit is skipped; trimmed is kept in the order of facts
RECURSIVE TrimLoop(_, _, _, _, _)
TrimLoop(facts, k, limit, trimmed, total_len) ==
  IF k = 0 THEN trimmed
  ELSE IF total_len + Len(facts[k])
            + (IF Len(trimmed) > 0 THEN Len(SUMMARY_SEPARATOR) ELSE 0) > limit
  THEN TrimLoop(facts, k - 1, limit, trimmed, total_len)
  ELSE TrimLoop(facts, k - 1, limit, <<facts[k]>> \o trimmed,
                total_len + Len(facts[k])
                  + (IF Len(trimmed) > 0 THEN Len(SUMMARY_SEPARATOR) ELSE 0))

_trim_facts(facts, limit) ==
  JoinWith(TrimLoop(facts, Len(facts), limit, <<>>, 0), SUMMARY_SEPARATOR)

\* the rolling summary is None or a text; an empty text counts as none
_merge_rolling_summary(existing, new_facts) ==
  _trim_facts(_dedupe_facts((IF IsNone(existing) \/ Len(Get(existing)) = 0
                             THEN <<>>
                             ELSE Split(Get(existing), SUMMARY_SEPARATOR))
                            \o new_facts),
              ROLLING_SUMMARY_LIMIT)

\* the metadata keys promote_memories_for_session reads and writes
Metadata(turn_log, recent_summary, rolling_summary) ==
  [turn_log |-> turn_log, recent_summary |-> recent_summary,
   rolling_summary |-> rolling_summary]

\* the last entries of the log, at most RECENT_TURN_LIMIT of them
RecentEntries(log) ==
  IF Len(log) > RECENT_TURN_LIMIT
  THEN SubSeq(log, Len(log) - RECENT_TURN_LIMIT + 1, Len(log)) ELSE log

\* the entries before them
OldEntries(log) ==
  IF Len(log) > RECENT_TURN_LIMIT
  THEN SubSeq(log, 1, Len(log) - RECENT_TURN_LIMIT) ELSE <<>>

\* the metadata once the threshold is reached, old_facts being the facts of
\* the old entries
PromoteOld(metadata, log, old_facts) ==
  [metadata EXCEPT
     !.rolling_summary =
       IF Len(old_facts) > 0
       THEN Some(_merge_rolling_summary(metadata.rolling_summary, old_facts))
       ELSE @,
     !.turn_log = RecentEntries(log)]

\* promote_memories_for_session on the whole metadata (the memory cards it
\* also writes are rows of their own)
PromoteMetadata(metadata, turn_count_threshold) ==
  IF Len(metadata.turn_log) = 0 THEN metadata
  ELSE IF Len(metadata.turn_log) >= turn_count_threshold
  THEN PromoteOld([metadata EXCEPT !.recent_summary =
                     Some(_facts_from_entries(RecentEntries(metadata.turn_log)))],
                  metadata.turn_log,
                  _facts_from_entries(OldEntries(metadata.turn_log)))
  ELSE [metadata EXCEPT !.recent_summary =
          Some(_facts_from_entries(RecentEntries(metadata.turn_log)))]

(* ------------------------------- state --------------------------------- *)
VARIABLES
  session,      \* the persisted session: rng_seed and metadata_json
  character,    \* the persisted character: attributes_json
  store,        \* the session's threads, clocks, discoveries, projects, drafts
  dice,         \* the SessionState object of the turn in flight, None if none
  result,       \* the TurnResult being returned, None between turns
  decision,     \* the RoutedDecision of the turn in flight, None if it did not route
  envelope,     \* router check: the envelope handed to route_envelope
  settings,     \* router check: the settings of the session_state handed to it
  routed        \* router check: the decision returned, None before the call

vars == <<session, character, store, dice, result, decision,
          envelope, settings, routed,
          first, second, calls, returned, echoed, status_ledger,
          status_call, fight, world, memory, request>>

turnVars == <<session, character, store, dice, result, decision>>
routeVars == <<envelope, settings, routed>>
ledgerVars == <<first, second, calls, returned, echoed>>
sideVars == <<status_call, fight, world, memory, request>>
rulesVars == <<first, second, calls, returned, echoed, status_ledger,
               status_call, fight, world, memory, request>>

Seeds == 0..MaxSeed

NoScene == [established |-> FALSE, summary |-> ""]

\* metadata_json as create_session_record, import_session or a test builds it
NewSession(seed, era, session_settings, scene_text, current_scene) ==
  [rng_seed |-> seed, era |-> era, settings |-> session_settings,
   scene_text |-> scene_text, scene |-> "", current_scene |-> current_scene,
   roll_index |-> 0, turn_index |-> None, turn_log |-> <<>>,
   gm_memory_notes |-> <<>>, retcon_log |-> <<>>,
   exploration_index |-> 0, stagnation_index |-> 0, pacing_tag |-> ""]

NewCharacter(resources, hp) ==
  [resources |-> resources, last_roll |-> None, last_damage |-> None, hp |-> hp]

NewStore(clocks) ==
  [threads |-> <<>>, clocks |-> clocks, discoveries |-> <<>>,
   projects |-> <<>>, system_drafts |-> <<>>]

DevOff == [dev_mode_enabled |-> "bool:false", dev_mode |-> "none"]
DevOn == [dev_mode_enabled |-> "bool:true", dev_mode |-> "none"]

EstablishedScene(summary) == [established |-> TRUE, summary |-> summary]

\* scene states a session starts in: created by create_session_record
\* (established default scene, no scene_text), imported with a scene text
\* only, imported with text and established scene
InitScenes ==
  {[scene_text |-> "", current_scene |-> EstablishedScene(EntranceSummary)],
   [scene_text |-> "Test scene.", current_scene |-> NoScene],
   [scene_text |-> "Test scene.", current_scene |-> EstablishedScene("A quiet dock.")]}

\* no resources stored yet, none left, the most a character starts with
InitResources ==
  {None} \cup {Some([actions |-> a, reactions |-> 1]) : a \in {0, MaxActions}}

\* a healthy character in a session without clocks, a downed one with a clock
InitParties ==
  {[hp |-> Some(5), clocks |-> <<>>],
   [hp |-> Some(0), clocks |-> <<[steps_done |-> 0, steps_total |-> 2]>>]}

IdleEnvelope ==
  [mode |-> "gm", protocol_id |-> "PROTO_ROUTINE", confidence |-> "high",
   ooc_questions |-> <<>>, gm_plan |-> None]

InitRouteIdle ==
  /\ envelope = IdleEnvelope
  /\ settings = DevOff
  /\ routed = None

\* no ledger or status check is running
InitLedgerIdle ==
  /\ first = SessionState(0)
  /\ second = SessionState(0)
  /\ calls = <<>>
  /\ returned = <<>>
  /\ echoed = <<>>

\* no effects, combat, two-session or compaction check is running
InitSideIdle ==
  /\ status_call = None
  /\ fight = None
  /\ world = None
  /\ memory = None
  /\ request = None

InitRulesIdle ==
  /\ InitLedgerIdle
  /\ status_ledger = None
  /\ InitSideIdle

Init ==
  /\ \E era \in {"Space", "Medieval"}, st \in {DevOff, DevOn}, sc \in InitScenes :
       session = NewSession(0, era, st, sc.scene_text, sc.current_scene)
  /\ \E r \in InitResources, party \in InitParties :
       /\ character = NewCharacter(r, party.hp)
       /\ store = NewStore(party.clocks)
  /\ dice = None
  /\ result = None
  /\ decision = None
  /\ InitRouteIdle
  /\ InitRulesIdle

(* ------------------------------ inputs --------------------------------- *)
ActionTypes ==
  {"explore", "scene_request", "interact", "attack", "use_power", "buy_item",
   "move", "ask_gm", "ask_clarifying_question", "invalid", "other"}

\* the intents a caller or the extractor supplies
Intents ==
  {Intent(a, "", "", "") : a \in ActionTypes}
  \cup {Intent("ask_gm", d, "", "retcon") : d \in {"Apply a minimal retcon.",
                                                   SpaceshipText}}
  \cup {Intent("invalid", "", "Illegal action", "")}

SimplePlan == <<GMPlanStep("attack", None, "action", FALSE, FALSE, None, <<>>)>>
BuildPlan == <<GMPlanStep("craft", Some(3), "hours", FALSE, FALSE, None, <<>>)>>
ReadyPlan ==
  <<GMPlanStep("improvise", Some(2), "action", TRUE, TRUE, Some("Engineering"),
               <<"raft">>)>>

TurnEnvelope(mode, protocol_id, confidence, ooc_questions, gm_plan) ==
  [mode |-> mode, protocol_id |-> protocol_id, confidence |-> confidence,
   ooc_questions |-> ooc_questions, gm_plan |-> gm_plan]

RoutineEnvelope == TurnEnvelope("gm", "PROTO_ROUTINE", "high", <<>>, None)

\* envelopes the classifier returns to a turn: every decision the router can
\* make is produced by one of them
TurnEnvelopes ==
  {TurnEnvelope("gm", p, c, <<>>, None) :
     p \in ProtocolId \cup {"PROTO_UNKNOWN"}, c \in {"high", "low"}}
  \cup {TurnEnvelope("ooc", p, "high", <<>>, None) :
          p \in {"PROTO_ROUTINE", "PROTO_UNKNOWN"}}
  \cup {TurnEnvelope("gm", p, "high", <<"What should I focus on?">>, None) :
          p \in {"PROTO_ROUTINE", "PROTO_EXPLORATION"}}
  \cup {TurnEnvelope("gm", "PROTO_ROUTINE", "high", <<>>, Some(plan)) :
          plan \in {SimplePlan, BuildPlan, ReadyPlan}}

\* the envelopes whose branch calls a creator callback
CreatorEnvelopes ==
  {e \in TurnEnvelopes :
     /\ e.confidence = "high" /\ e.mode = "gm" /\ e.ooc_questions = <<>>
     /\ \/ e.protocol_id \in {"PROTO_CONTENT_GAP", "PROTO_EXPLORATION",
                              "PROTO_STAGNATION"}
        \/ e.gm_plan # None}

Llm(env, intent, narration) ==
  [envelope |-> env, intent |-> intent, narration |-> narration]

TurnInput(player_text, intent_override, llm, creators) ==
  [player_text |-> player_text, intent_override |-> intent_override,
   llm |-> llm, creators |-> creators]

AttackIntent == Intent("attack", "", "", "")

\* a structured action (intent_override)
OverrideInputs ==
  {TurnInput(t, Some(i), Llm(None, None, "Stub narration."), "db") :
     t \in {PlainText, SpaceshipText}, i \in Intents}
  \cup {TurnInput(RecallText, Some(AttackIntent), Llm(None, None, n), "db") :
          n \in {"", "Stub narration."}}

\* free text, the classifier raising
ClassifierFailureInputs ==
  {TurnInput(t, None, Llm(None, None, "Stub narration."), "db") :
     t \in {PlainText, SpaceshipText, RecallText}}

\* free text, the classifier returning an envelope
EnvelopeInputs ==
  {TurnInput(PlainText, None, Llm(Some(e), Some(AttackIntent), "Stub narration."),
             "db") : e \in TurnEnvelopes}
  \cup {TurnInput(PlainText, None, Llm(Some(e), Some(AttackIntent), ""), c) :
          e \in CreatorEnvelopes, c \in {"none", "project_fails"}}
  \cup {TurnInput(t, None, Llm(Some(RoutineEnvelope), i, "Stub narration."), "db") :
          t \in {PlainText, SpaceshipText},
          i \in {None, Some(Intent("use_power", "", "", "")),
                 Some(Intent("invalid", "", "Illegal action", "")),
                 Some(Intent("explore", "", "", ""))}}

TurnInputs == OverrideInputs \cup ClassifierFailureInputs \cup EnvelopeInputs

\* the persisted effects of the mutating turns so far
Effects(s, st) ==
  Len(s.turn_log) + Len(s.gm_memory_notes) + Len(s.retcon_log)
  + s.exploration_index + s.stagnation_index
  + Len(st.projects) + Len(st.system_drafts)

(* ------------------------------ actions -------------------------------- *)
\* one call of execute_turn on the persisted session and character, accepted
\* when no other turn of the session is in flight: execute_turn_for_state,
\* then promote_memories_for_session
TurnOver(inputs, limit) ==
  /\ result = None
  /\ \E inp \in inputs :
       LET out == execute_turn_for_state(session, character, store,
                                         inp.player_text, inp.intent_override,
                                         inp.llm, inp.creators)
       IN /\ Effects(out.session, out.store) <= limit
          /\ session' = promote_memories_for_session(out.session, TurnCountThreshold)
          /\ character' = out.character
          /\ store' = out.store
          /\ dice' = out.dice
          /\ result' = Some(out.result)
          /\ decision' = out.decision
  /\ UNCHANGED routeVars
  /\ UNCHANGED rulesVars

\* execute_turn: the turn on the loaded session and character.  The ruling
\* and player-profile records it also writes are no part of the session or
\* character.
ExecuteTurn == TurnOver(TurnInputs, MaxTurns)

\* the turn ends: the result is handed to the caller, the turn's SessionState
\* and decision are dropped
ReturnResult ==
  /\ result # None
  /\ result' = None
  /\ dice' = None
  /\ decision' = None
  /\ UNCHANGED <<session, character, store>>
  /\ UNCHANGED routeVars
  /\ UNCHANGED rulesVars

\* POST /characters/{id}/respawn
Respawn ==
  /\ result = None
  /\ IsSpaceEra(session.era)
  /\ character' = respawn_character(character)
  /\ UNCHANGED <<session, store, dice, result, decision>>
  /\ UNCHANGED routeVars
  /\ UNCHANGED rulesVars

Next == ExecuteTurn \/ ReturnResult \/ Respawn

Spec == Init /\ [][Next]_vars

(* ------------------------- router specification ------------------------ *)
UnknownProtocolIds == {"PROTO_UNKNOWN", "proto_routine", ""}

QuestionLists ==
  {<<>>, <<"Confirm intent?">>, <<"Confirm intent?", "Which target?">>,
   <<"Confirm intent?", "Which target?", "How far?">>}

DevFlagValues == {"none"} \cup DevFlagBools \cup DevFlagStrs

RouterEnvelopes ==
  {TurnEnvelope(m, p, c, q, None) :
     m \in {"gm", "ooc", "dev"}, p \in ProtocolId \cup UnknownProtocolIds,
     c \in {"high", "medium", "low"}, q \in QuestionLists}

InitRoute ==
  /\ envelope \in RouterEnvelopes
  /\ settings \in [dev_mode_enabled : DevFlagValues, dev_mode : DevFlagValues]
  /\ routed = None
  /\ session = NewSession(0, "Space", DevOff, "", NoScene)
  /\ character = NewCharacter(None, None)
  /\ store = NewStore(<<>>)
  /\ dice = None
  /\ result = None
  /\ decision = None
  /\ InitRulesIdle

\* one call of route_envelope
Route ==
  /\ routed = None
  /\ routed' = Some(route_envelope(envelope, [settings |-> settings]))
  /\ UNCHANGED <<envelope, settings>>
  /\ UNCHANGED turnVars
  /\ UNCHANGED rulesVars

SpecRoute == InitRoute /\ [][Route]_vars

(* ------------------------- replay specification ------------------------ *)
\* structured actions on an established scene
MechanicsInputs ==
  {TurnInput(PlainText, Some(Intent(a, "", "", "")),
             Llm(None, None, "Stub narration."), "db") :
     a \in {"attack", "explore", "move"}}

InitReplay ==
  /\ \E seed \in Seeds :
       session = NewSession(seed, "Space", DevOff, "Test scene.",
                            EstablishedScene("Test scene."))
  /\ \E r \in InitResources : character = NewCharacter(r, Some(5))
  /\ store = NewStore(<<>>)
  /\ dice = None
  /\ result = None
  /\ decision = None
  /\ InitRouteIdle
  /\ InitRulesIdle

MechanicsTurn == TurnOver(MechanicsInputs, MaxLog)

NextReplay == MechanicsTurn \/ ReturnResult \/ Respawn

SpecReplay == InitReplay /\ [][NextReplay]_vars

(* --------------------------- router properties ------------------------- *)
\* the envelope routed is out of character
EnvelopeOoc == envelope.mode = "ooc" \/ Len(envelope.ooc_questions) > 0
\* its protocol id is none of the enumeration
EnvelopeUnknown == envelope.protocol_id \notin ProtocolId
\* developer mode of the session state handed to the router
EnvelopeDev == RouterDevModeEnabled([settings |-> settings])
\* the safe set as the specification lists it
SafeSet ==
  {"PROTO_CLARIFICATION", "PROTO_ROUTINE", "PROTO_EXPLORATION", "PROTO_DOWNTIME",
   "PROTO_CONTENT_GAP", "PROTO_RULE_EDGE_CASE", "PROTO_MEMORY_PROMOTION",
   "PROTO_MEMORY_RECALL"}
EnvelopeLowUnsafe ==
  envelope.confidence = "low" /\ envelope.protocol_id \notin SafeSet

\* C5: an envelope whose mode is ooc or whose question list is non-empty is
\* routed to the clarification protocol, not executing, time frozen, carrying
\* the envelope's questions, whatever its protocol id, confidence or the
\* developer-mode setting.
C5_OocForcesClarification ==
  (routed # None /\ EnvelopeOoc) =>
    /\ Get(routed).protocol_id = "PROTO_CLARIFICATION"
    /\ Get(routed).execute = FALSE
    /\ Get(routed).freeze_time = TRUE
    /\ Get(routed).ooc_questions = Some(envelope.ooc_questions)

\* an in-character envelope with two questions, an unknown protocol id and low
\* confidence, routed in developer mode
C5_Witness ==
  /\ routed # None
  /\ envelope.mode = "gm"
  /\ Len(envelope.ooc_questions) = 2
  /\ EnvelopeUnknown
  /\ envelope.confidence = "low"
  /\ EnvelopeDev
  /\ Get(routed).ooc_questions = Some(envelope.ooc_questions)

\* C6: an in-character envelope without questions whose protocol id is not
\* registered is never executed and always freezes time; with developer mode
\* off the decision is the clarification protocol asking to restate the
\* request, with developer mode on it carries a dev report naming the
\* unknown protocol id.
C6_UnknownProtocol ==
  (routed # None /\ ~EnvelopeOoc /\ EnvelopeUnknown) =>
    /\ Get(routed).execute = FALSE
    /\ Get(routed).freeze_time = TRUE
    /\ ~EnvelopeDev =>
         /\ Get(routed).protocol_id = "PROTO_CLARIFICATION"
         /\ Get(routed).ooc_questions = Some(<<RestateQuestion>>)
         /\ Get(routed).dev_report = None
    /\ EnvelopeDev =>
         /\ Get(routed).dev_report # None
         /\ Get(Get(routed).dev_report).protocol_id = envelope.protocol_id
         /\ Get(Get(routed).dev_report).error = "Unknown protocol_id"

\* an unknown id routed in developer mode switched on by the legacy dev_mode
\* key holding the string "TRUE"
C6_Witness ==
  /\ routed # None
  /\ envelope.mode = "gm" /\ envelope.ooc_questions = <<>>
  /\ envelope.protocol_id = "proto_routine"
  /\ settings.dev_mode_enabled = "none" /\ settings.dev_mode = "str:TRUE"
  /\ Get(routed).dev_report # None
  /\ Get(routed).execute = FALSE

\* C7: for an in-character envelope without questions and with a registered
\* protocol id, low confidence forces the clarification protocol (frozen, not
\* executing) exactly when the protocol is outside the safe set; a
\* low-confidence envelope with a safe protocol executes.
C7_LowConfidence ==
  (routed # None /\ ~EnvelopeOoc /\ ~EnvelopeUnknown) =>
    /\ (Get(routed).reason = "low_confidence") <=> EnvelopeLowUnsafe
    /\ EnvelopeLowUnsafe =>
         /\ Get(routed).protocol_id = "PROTO_CLARIFICATION"
         /\ Get(routed).freeze_time = TRUE
         /\ Get(routed).execute = FALSE
    /\ (envelope.confidence = "low" /\ envelope.protocol_id \in SafeSet) =>
         /\ Get(routed).execute = TRUE
         /\ Get(routed).protocol_id = envelope.protocol_id

\* a low-confidence downtime envelope executed, time advancing
C7_Witness ==
  /\ routed # None
  /\ ~EnvelopeOoc
  /\ envelope.confidence = "low"
  /\ envelope.protocol_id = "PROTO_DOWNTIME"
  /\ Get(routed).execute = TRUE
  /\ Get(routed).freeze_time = FALSE

\* C8: the rules form a priority cascade: out of character wins over unknown
\* protocol, unknown protocol over low confidence, low confidence over normal
\* execution; the reason code is that of the highest-priority condition that
\* holds.
C8_PriorityCascade ==
  routed # None =>
    Get(routed).reason =
      IF EnvelopeOoc THEN "ooc"
      ELSE IF EnvelopeUnknown THEN "unknown_protocol"
      ELSE IF envelope.confidence = "low" /\ envelope.protocol_id \notin SafeSet
           THEN "low_confidence"
      ELSE "ok"

\* all of out of character, unknown protocol and low confidence hold at once
C8_Witness ==
  /\ routed # None
  /\ envelope.mode = "ooc"
  /\ EnvelopeUnknown
  /\ envelope.confidence = "low"
  /\ Get(routed).reason = "ooc"

\* C9: when none of the out-of-character, unknown-protocol and low-confidence
\* rules applies, the decision executes under the envelope's own protocol id
\* and freezes time exactly when the registry's time policy of that protocol
\* is freeze; every protocol id of the enumeration has a registry entry whose
\* time policy is freeze or advance.
C9_ExecuteUnderRegistryPolicy ==
  /\ ProtocolId \subseteq DOMAIN PROTOCOL_REGISTRY
  /\ \A p \in DOMAIN PROTOCOL_REGISTRY :
       PROTOCOL_REGISTRY[p].time_policy \in {"freeze", "advance"}
  /\ (routed # None /\ ~EnvelopeOoc /\ ~EnvelopeUnknown /\ ~EnvelopeLowUnsafe) =>
       /\ Get(routed).execute = TRUE
       /\ Get(routed).protocol_id = envelope.protocol_id
       /\ Get(routed).freeze_time
            <=> (PROTOCOL_REGISTRY[envelope.protocol_id].time_policy = "freeze")
       /\ Get(routed).dev_report = None
       /\ Get(routed).ooc_questions = None

\* a medium-confidence catastrophic envelope: executed with time frozen
C9_Witness ==
  /\ routed # None
  /\ ~EnvelopeOoc
  /\ envelope.protocol_id = "PROTO_CATASTROPHIC"
  /\ envelope.confidence = "medium"
  /\ Get(routed).execute = TRUE
  /\ Get(routed).freeze_time = TRUE

(* ------------------------ turn pipeline properties --------------------- *)
\* a state diff is the empty dict
IsEmptyDiff(state_diff) == DOMAIN state_diff = {}

\* the step of a turn: execute_turn_for_state returns a result
TurnReturns == result = None /\ result' # None

\* C1: every TurnResult returned with needs_clarification = true carries an
\* empty state diff, whichever branch produced it.
C1_ClarificationHasEmptyDiff ==
  (result # None /\ Get(result).needs_clarification)
    => IsEmptyDiff(Get(result).state_diff)

\* a project created with open questions: a clarification, nothing in the diff
C1_Witness ==
  /\ result # None
  /\ Get(result).needs_clarification
  /\ Get(result).project_created # None
  /\ Len(store.projects) = 1
  /\ IsEmptyDiff(Get(result).state_diff)

\* C2: when the router's decision for a turn freezes time or does not
\* execute, the turn rolls no dice and leaves the character's action
\* resources and the session's roll_index, turn_index and turn log as they
\* were.
C2_FrozenDecisionNoMechanics ==
  [][(/\ TurnReturns
      /\ decision' # None
      /\ (Get(decision').freeze_time \/ ~Get(decision').execute))
     => /\ dice' = None
        /\ Get(result').rolls = <<>>
        /\ character'.resources = character.resources
        /\ session'.roll_index = session.roll_index
        /\ session'.turn_index = session.turn_index
        /\ session'.turn_log = session.turn_log]_vars

\* after an executed attack, a catastrophic envelope: the decision executes
\* with time frozen and the turn is answered by a clarification
C2_Witness ==
  /\ result # None
  /\ decision # None
  /\ Get(decision).protocol_id = "PROTO_CATASTROPHIC"
  /\ Get(decision).execute /\ Get(decision).freeze_time
  /\ Get(result).needs_clarification
  /\ dice = None
  /\ Len(session.turn_log) = 1
  /\ session.roll_index > 0

\* the messages with which legality and resource validation reject an intent
ValidationRejections ==
  {"That action isn't possible. You are in a Medieval setting. You do not possess a spaceship.",
   "Action not allowed right now.", "Invalid action cost.",
   "Not enough actions.", "Powers are locked outside the Space era."}

\* the turn returned because validation rejected its intent
ValidationRejected(r) ==
  /\ Len(r.validation_errors) > 0
  /\ r.validation_errors[Len(r.validation_errors)] \in ValidationRejections

\* the session metadata apart from the scene fields, which scene
\* establishment stores at the start of every turn
Unscened(s) == [s EXCEPT !.current_scene = NoScene, !.scene_text = ""]

\* C3: when legality or resource validation rejects an intent, the turn
\* returns a clarification and has written nothing: no dice rolled, the
\* character as before, no turn-log entry and no other session-metadata entry
\* added (the scene fields stored by scene establishment set aside).
C3_RejectionWritesNothing ==
  [][(TurnReturns /\ ValidationRejected(Get(result')))
     => /\ Get(result').needs_clarification
        /\ dice' = None
        /\ character' = character
        /\ Unscened(session') = Unscened(session)]_vars

RECURSIVE SingleGeneratorRolls(_, _)
\* the rolls one generator, never reset, logs when it resolves the actions of
\* the turn log in order: one list of rolls for each entry
SingleGeneratorRolls(session_state, log) ==
  IF Len(log) = 0 THEN <<>>
  ELSE LET intent == _intent_to_turn_intent(Intent(Head(log).action, "", "", ""))
           m == _execute_mechanics([session_state EXCEPT !.turn_log = <<>>], intent)
           rolls == m.session_state.turn_log
       IN <<[i \in DOMAIN rolls |-> [f |-> rolls[i].formula, r |-> rolls[i].result]]>>
          \o SingleGeneratorRolls(m.session_state, Tail(log))

\* C10: over any sequence of executed turns of a session, the dice values
\* drawn (each turn from a fresh generator seeded with the session seed and
\* fast-forwarded by discarding roll_index draws) equal those a single,
\* never-reset generator with that seed produces for the same roll calls.
C10_ReplayMatchesSingleGenerator ==
  LET single == SingleGeneratorRolls(SessionState(session.rng_seed), session.turn_log)
  IN \A i \in DOMAIN session.turn_log : session.turn_log[i].rolls = single[i]

(* ------------------------- ledger specification ------------------------ *)
\* the ledger check makes at most this many calls on a session
MaxCalls == 2

\* the text of a formula NdM+K: the modifier is written with its sign, and
\* left out when it is zero
FormatDice(n, m, k) ==
  IntStr(n) \o <<"d">> \o IntStr(m)
  \o (IF k = 0 THEN <<>> ELSE IF k < 0 THEN <<"-">> \o IntStr(0 - k)
      ELSE <<"+">> \o IntStr(k))

DiceCounts == {1, 2}
DiceSides == {1, 6}
DiceModifiers == {-4, 0, 3}
BareIntegers == {0, 7, 12}

\* formulas NdM+K with N >= 1 and M >= 1
ValidFormulas ==
  {FormatDice(n, m, k) : n \in DiceCounts, m \in DiceSides, k \in DiceModifiers}

\* other texts DICE_PATTERN or INTEGER_PATTERN accepts: count left out, upper
\* case, surrounding white space, leading zeros
LooseFormulas ==
  {<<"d", "6">>, <<"1", "D", "2", "0">>, <<" ", "2", "d", "4", "+", "1", "\n">>,
   <<"0", "0", "7">>, <<" ", "1", "2", " ">>}

\* texts roll rejects: no match, no dice, no sides
MalformedFormulas ==
  {<<>>, <<"x">>, <<"d">>, <<"1", "d">>, <<"1", "d", "6", "+">>,
   <<"1", "d", " ", "6">>, <<"-", "5">>, <<"2", "d", "6", "+", "3", "x">>,
   <<"0", "d", "6">>, <<"2", "d", "0">>}

LedgerCall(fn, dice_str, roll_index, action) ==
  [fn |-> fn, dice_str |-> dice_str, roll_index |-> roll_index, action |-> action]

\* roll_d20, roll of a formula, and the evaluation of a turn's mechanics on
\* the session's seed and a roll index
LedgerCalls ==
  {LedgerCall("roll_d20", <<>>, 0, "")}
  \cup {LedgerCall("roll", f, 0, "") :
          f \in ValidFormulas \cup {IntStr(v) : v \in BareIntegers}
                \cup LooseFormulas \cup MalformedFormulas}
  \cup {LedgerCall("turn", <<>>, i, a) : i \in {0, 1}, a \in {"attack", "explore"}}

\* the mechanics of a turn as _execute_intent_pipeline evaluates them:
\* SessionState(seed), _consume_rolls, _execute_mechanics
EvaluateTurn(seed, roll_index, intent) ==
  _execute_mechanics(_consume_rolls(SessionState(seed), roll_index),
                     _intent_to_turn_intent(intent))

\* what the evaluation m of a turn hands back: its rolls and its outcome
TurnEvaluated(session_state, m) ==
  [raised |-> FALSE,
   result |-> [rolls |-> m.session_state.turn_log, outcome |-> m.outcome],
   session |-> session_state]

\* the call c made on session_state
Call(session_state, c) ==
  CASE c.fn = "roll_d20" -> roll_d20(session_state)
    [] c.fn = "roll" -> roll(session_state, c.dice_str)
    [] c.fn = "turn" ->
         TurnEvaluated(session_state,
                       EvaluateTurn(session_state.seed, c.roll_index,
                                    Intent(c.action, "", "", "")))

\* what the caller of a call sees: the value, or the ValueError
Returned(r) == [raised |-> r.raised, result |-> r.result]

InitLedger ==
  /\ \E seed \in Seeds :
       /\ first = SessionState(seed)
       /\ second = SessionState(seed)
  /\ calls = <<>>
  /\ returned = <<>>
  /\ echoed = <<>>
  /\ status_ledger = None
  /\ InitSideIdle
  /\ session = NewSession(0, "Space", DevOff, "", NoScene)
  /\ character = NewCharacter(None, None)
  /\ store = NewStore(<<>>)
  /\ dice = None
  /\ result = None
  /\ decision = None
  /\ InitRouteIdle

\* first has made the call c and r came back
FirstCalled(c, r) ==
  /\ first' = r.session
  /\ calls' = Append(calls, c)
  /\ returned' = Append(returned, Returned(r))

\* a call on the first session
CallFirst ==
  /\ Len(calls) < MaxCalls
  /\ \E c \in LedgerCalls : FirstCalled(c, Call(first, c))
  /\ UNCHANGED <<second, echoed, status_ledger>>
  /\ UNCHANGED sideVars
  /\ UNCHANGED turnVars
  /\ UNCHANGED routeVars

\* second has repeated a call and r came back
SecondCalled(r) ==
  /\ second' = r.session
  /\ echoed' = Append(echoed, Returned(r))

\* the next call of first's sequence, made on the second session
CallSecond ==
  /\ Len(echoed) < Len(calls)
  /\ SecondCalled(Call(second, calls[Len(echoed) + 1]))
  /\ UNCHANGED <<first, calls, returned, status_ledger>>
  /\ UNCHANGED sideVars
  /\ UNCHANGED turnVars
  /\ UNCHANGED routeVars

NextLedger == CallFirst \/ CallSecond

SpecLedger == InitLedger /\ [][NextLedger]_vars

FirstCalls == Len(calls') = Len(calls) + 1

\* C18: a roll of NdM+K with N >= 1 and M >= 1 returns a total between N+K
\* and N*M+K from N dice that each show 1..M, roll_d20 returns 1..20, and a
\* roll of a bare non-negative integer returns that integer.
C18_RollsWithinRange ==
  [][FirstCalls =>
       LET c == calls'[Len(calls')]
           r == returned'[Len(returned')]
           e == first'.turn_log[Len(first'.turn_log)]
       IN /\ c.fn = "roll_d20" => ~r.raised /\ r.result \in 1..20
          /\ \A n \in DiceCounts, m \in DiceSides, k \in DiceModifiers :
               (c.fn = "roll" /\ c.dice_str = FormatDice(n, m, k)) =>
                 /\ ~r.raised
                 /\ r.result \in (n + k)..(n * m + k)
                 /\ Len(e.rolls) = n
                 /\ \A i \in DOMAIN e.rolls : e.rolls[i] \in 1..m
          /\ \A v \in BareIntegers :
               (c.fn = "roll" /\ c.dice_str = IntStr(v)) =>
                 ~r.raised /\ r.result = v]_vars

\* a 2d6-4 was rolled after a bare 12
C18_Witness ==
  /\ Len(calls) = 2
  /\ calls[1].dice_str = <<"1", "2">>
  /\ returned[1].result = 12
  /\ calls[2].dice_str = <<"2", "d", "6", "-", "4">>
  /\ ~returned[2].raised
  /\ Len(first.turn_log) = 2

\* C19: a roll_d20 or roll call that returns appends exactly one entry at the
\* end of the ledger and changes no earlier entry, the entry's result being
\* the returned value and the sum of its dice plus its modifier; a call that
\* fails appends nothing.
C19_LedgerAppendOnly ==
  [][(FirstCalls /\ calls'[Len(calls')].fn # "turn") =>
       LET r == returned'[Len(returned')]
           e == first'.turn_log[Len(first'.turn_log)]
       IN IF r.raised THEN first'.turn_log = first.turn_log
          ELSE /\ Len(first'.turn_log) = Len(first.turn_log) + 1
               /\ SubSeq(first'.turn_log, 1, Len(first.turn_log)) = first.turn_log
               /\ e.result = r.result
               /\ e.result = SumSeq(e.rolls) + e.modifier]_vars

\* a logged roll was followed by a roll that raised
C19_Witness ==
  /\ Len(calls) = 2
  /\ calls[1].fn = "roll"
  /\ ~returned[1].raised
  /\ returned[2].raised
  /\ Len(first.turn_log) = 1

(* ------------------------- turn log properties ------------------------- *)
\* the turn that returns executed mechanics
MechanicsReturns == TurnReturns /\ Get(result').outcome.kind = "mechanics"

MaxLogged == 100

\* structured actions without dice: explore costs nothing, move costs an action
LogInputs ==
  {TurnInput(PlainText, Some(Intent(a, "", "", "")),
             Llm(None, None, "Stub narration."), "db") :
     a \in {"explore", "move"}}

\* a session on an established scene, its character out of actions
InitLog ==
  /\ session = NewSession(0, "Space", DevOff, "Test scene.",
                          EstablishedScene("Test scene."))
  /\ character = NewCharacter(Some([actions |-> 0, reactions |-> 1]), Some(5))
  /\ store = NewStore(<<>>)
  /\ dice = None
  /\ result = None
  /\ decision = None
  /\ InitRouteIdle
  /\ InitRulesIdle

LoggedTurn == TurnOver(LogInputs, MaxLogged)

\* the thresholds promote_memories is called with: its default, and the
\* least one at which a log can be cut
PromoteThresholds == {TurnCountThreshold, RECENT_TURN_LIMIT + 1}

\* promote_memories(session_id, turn_count_threshold), called on its own
PromoteMemories ==
  /\ result = None
  /\ \E t \in PromoteThresholds :
       session' = promote_memories_for_session(session, t)
  /\ UNCHANGED <<character, store, dice, result, decision>>
  /\ UNCHANGED routeVars
  /\ UNCHANGED rulesVars

NextLog == LoggedTurn \/ ReturnResult \/ PromoteMemories

SpecLog == InitLog /\ [][NextLog]_vars

\* metadata.get("turn_index"), none counted as 0
TurnIndexOf(s) == IF IsNone(s.turn_index) THEN 0 ELSE Get(s.turn_index)

\* C13: turn_index after an executed turn is one greater than before it, and
\* no step (executed turn, non-executing turn, compaction of the turn log)
\* lowers it.
C13_TurnIndexCountsTurns ==
  [][/\ MechanicsReturns => TurnIndexOf(session') = TurnIndexOf(session) + 1
     /\ TurnIndexOf(session') >= TurnIndexOf(session)]_vars

(* ------------------------- validation properties ----------------------- *)
\* C14: mechanics run only when the character has at least as many actions
\* as the action costs; the executed turn lowers actions by exactly the cost
\* (1 for an attack, 0 for explore, scene_request and ask_gm); actions,
\* started non-negative, never become negative.
C14_ActionsPayForMechanics ==
  [][/\ MechanicsReturns =>
          LET before == _ensure_resources(character).actions
              after == Get(character'.resources).actions
              action == Get(result').intent.action_type
              cost == _intent_to_turn_intent(Get(result').intent).actions_required
          IN /\ before >= cost
             /\ after = before - cost
             /\ action = "attack" => cost = 1
             /\ action \in {"explore", "scene_request", "ask_gm"} => cost = 0
     /\ ~IsNone(character'.resources) => Get(character'.resources).actions >= 0]_vars

\* an attack is being returned and has spent the character's one action
C14_Witness ==
  /\ result # None
  /\ Get(result).outcome.kind = "mechanics"
  /\ Get(result).intent.action_type = "attack"
  /\ character.resources = Some([actions |-> 0, reactions |-> 1])

\* the intent the input hands to the intent pipeline
InputIntent(inp) ==
  IF ~IsNone(inp.intent_override) THEN Get(inp.intent_override)
  ELSE IF IsNone(inp.llm.intent) THEN FallbackIntent
  ELSE Get(inp.llm.intent)

\* the turn's intent refers to a spaceship outside the Space era, names an
\* action type outside the allowed set, uses a power outside the Space era,
\* or costs more actions than the character has
IllegalInput(inp) ==
  LET intent == InputIntent(inp)
      space == IsSpaceEra(_extract_era_name(session))
  IN \/ ~space /\ (IsSpaceshipText(inp.player_text) \/ IsSpaceshipText(intent.dialogue))
     \/ intent.action_type \notin Range(AvailableActions)
     \/ ~space /\ intent.action_type = "use_power"
     \/ _ensure_resources(character).actions
          < _intent_to_turn_intent(intent).actions_required

\* the turn the input would make from the persisted state
TurnFor(inp) ==
  execute_turn_for_state(session, character, store, inp.player_text,
                         inp.intent_override, inp.llm, inp.creators)

\* C15: a turn whose intent refers to a spaceship outside the Space era,
\* names an action type outside the allowed set, uses a power outside the
\* Space era or costs more actions than the character has never executes
\* mechanics; handed to the intent pipeline (a structured intent whose text
\* is no memory-recall request), it is answered by a clarification.
C15_IllegalIntentsClarify ==
  result = None =>
    \A inp \in TurnInputs :
      IllegalInput(inp) =>
        /\ TurnFor(inp).dice = None
        /\ TurnFor(inp).result.outcome.kind # "mechanics"
        /\ TurnFor(inp).result.rolls = <<>>
        /\ (~IsNone(inp.intent_override) /\ ~_is_memory_recall_request(inp.player_text))
             => TurnFor(inp).result.needs_clarification

\* a power was used outside the Space era: the turn is being answered by a
\* clarification, no dice rolled
C15_Witness ==
  /\ result # None
  /\ Get(result).needs_clarification
  /\ Get(result).validation_errors = <<"Powers are locked outside the Space era.">>
  /\ ~IsSpaceEra(_extract_era_name(session))
  /\ dice = None

(* ------------------------- status specification ------------------------ *)
\* the status check applies a status while its entry holds at most this many stacks
MaxStacks == 3

\* "Bleeding" (default duration 3), " STUN " (default 1), "disease" (none)
StatusNames ==
  {<<"B", "l", "e", "e", "d", "i", "n", "g">>, <<" ", "S", "T", "U", "N", " ">>,
   <<"d", "i", "s", "e", "a", "s", "e">>}

\* a name outside the vocabulary
UnknownStatusNames == {<<"F", "r", "o", "z", "e", "n">>}

StatusStacks == {1, 2}
StatusLevels == {1, 2}
StatusDurations == {None, Some(1), Some(4)}

InitStatus ==
  /\ status_ledger = None
  /\ InitLedgerIdle
  /\ InitSideIdle
  /\ session = NewSession(0, "Space", DevOff, "", NoScene)
  /\ character = NewCharacter(None, None)
  /\ store = NewStore(<<>>)
  /\ dice = None
  /\ result = None
  /\ decision = None
  /\ InitRouteIdle

\* the ledger r.statuses replaces the combatant's ledger; a raise leaves it
StatusApplied(r) ==
  IF r.raised THEN UNCHANGED status_ledger
  ELSE /\ \A n \in DOMAIN r.statuses : r.statuses[n].stacks <= MaxStacks
       /\ status_ledger' = r.statuses

\* apply_status on the combatant's ledger
ApplyStatus ==
  /\ \E name \in StatusNames \cup UnknownStatusNames, stacks \in StatusStacks,
        level \in StatusLevels, duration \in StatusDurations :
       StatusApplied(apply_status(status_ledger, name, stacks, level, duration))
  /\ UNCHANGED ledgerVars
  /\ UNCHANGED sideVars
  /\ UNCHANGED turnVars
  /\ UNCHANGED routeVars

SpecStatus == InitStatus /\ [][ApplyStatus]_vars

(* --------------------------- status properties ------------------------- *)
\* the entry of c in the ledger `applied`, got by applying k stacks to `old`
MergedEntry(old, c, k, level, given, applied) ==
  /\ applied[c].stacks = (IF c \in DOMAIN old THEN old[c].stacks ELSE 0) + k
  /\ applied[c].level = Max(IF c \in DOMAIN old THEN old[c].level ELSE 0, level)
  /\ applied[c].duration =
       (IF c \in DOMAIN old /\ ~IsNone(old[c].duration) /\ ~IsNone(given)
        THEN Some(Max(Get(old[c].duration), Get(given)))
        ELSE IF ~IsNone(given) THEN given
        ELSE IF c \in DOMAIN old THEN old[c].duration ELSE None)
  /\ DOMAIN applied = DOMAIN old \cup {c}
  /\ \A n \in DOMAIN old \ {c} : applied[n] = old[n]

\* once is `old` after one stack of the status, two after two stacks
MergedAs(old, c, level, given, once, two, name, duration) ==
  /\ apply_status(once, name, 1, level, duration).statuses = two
  /\ MergedEntry(old, c, 1, level, given, once)
  /\ MergedEntry(old, c, 2, level, given, two)

CritSeed == 5

\* structured actions on an established scene, for the replay seeds and the
\* seed of a critical hit
InitCombat ==
  /\ \E seed \in Seeds \cup {CritSeed} :
       session = NewSession(seed, "Space", DevOff, "Test scene.",
                            EstablishedScene("Test scene."))
  /\ \E r \in InitResources : character = NewCharacter(r, Some(5))
  /\ store = NewStore(<<>>)
  /\ dice = None
  /\ result = None
  /\ decision = None
  /\ InitRouteIdle
  /\ InitRulesIdle

SpecCombat == InitCombat /\ [][NextReplay]_vars

(* --------------------------- combat properties ------------------------- *)
\* the turn that returns executed an attack
AttackReturns ==
  MechanicsReturns /\ Get(result').outcome.mechanics.kind = "attack"

\* the keys of the outcome dict _execute_mechanics returns for an attack
AttackOutcomeKeys ==
  {"hit", "attack_roll", "attack_total", "target_ar", "damage", "target"}

\* the combatants the attack of a turn intent stands for
IntentAttacker(intent) ==
  CombatantState("attacker", 0, 0, 0, intent.skill_bonus, intent.attr_bonus,
                 Some(Weapon("weapon", intent.weapon_damage, 0)))

IntentDefender(intent) == CombatantState("target", intent.target_ar, 0, 0, 0, 0, None)

\* resolve_attack for the turn intent, on the SessionState the pipeline
\* rolls on: the same seed at the same roll_index, so the same d20
ResolverAttack(s, intent) ==
  resolve_attack(_consume_rolls(SessionState(s.rng_seed), _extract_roll_index(s)),
                 IntentAttacker(intent), IntentDefender(intent), DefaultOptions)

\* the attack outcome of the pipeline against the resolver's result r
FollowsResolver(outcome, intent, r) ==
  /\ ~r.raised
  /\ Get(outcome.attack_roll) = Get(r.result).attack_roll
  /\ Get(outcome.hit)
       = (Get(outcome.attack_roll) + intent.skill_bonus + intent.attr_bonus
            >= intent.target_ar)
  /\ Get(outcome.hit) = Get(r.result).hit
  /\ (~Get(outcome.hit) => Get(outcome.damage) = 0)
  /\ (Get(outcome.attack_roll) >= 19 => "crit" \in AttackOutcomeKeys)
  /\ Get(outcome.damage) = Get(r.result).damage

\* C16: an attack executed by the turn pipeline follows the Combat Resolver's
\* rules for the same d20 roll and the same weapon: hit iff roll + skill +
\* attribute bonus >= target armor rating, damage rolled only on a hit (one
\* die in the turn's rolls on a miss), and a natural 19 or 20 is reported as
\* a critical whose damage doubles the dice sum.
C16_AttackFollowsResolver ==
  [][AttackReturns =>
       /\ FollowsResolver(Get(result').outcome.mechanics,
                          _intent_to_turn_intent(Get(result').intent),
                          ResolverAttack(session,
                                         _intent_to_turn_intent(Get(result').intent)))
       /\ (~Get(Get(result').outcome.mechanics.hit) => Len(Get(result').rolls) = 1)]_vars

(* ------------------------- opening specification ----------------------- *)
\* sessions with no scene text and no established scene
InitOpening ==
  /\ \E era \in {"Space", "Medieval"}, st \in {DevOff, DevOn} :
       session = NewSession(0, era, st, "", NoScene)
  /\ \E r \in InitResources, party \in InitParties :
       /\ character = NewCharacter(r, party.hp)
       /\ store = NewStore(party.clocks)
  /\ dice = None
  /\ result = None
  /\ decision = None
  /\ InitRouteIdle
  /\ InitRulesIdle

SpecOpening == InitOpening /\ [][Next]_vars

(* --------------------------- opening properties ------------------------ *)
\* the texts the narration service returns when asked
ServiceNarrations == {inp.llm.narration : inp \in TurnInputs} \ {""}

\* the scene introduction of a session with no scene text and no
\* established scene returns
OpeningTurn ==
  /\ TurnReturns
  /\ ~_has_scene_text(session)
  /\ ~session.current_scene.established
  /\ Get(result').outcome.kind = "scene_established"

\* C17: when a session has no scene text and no established scene, the
\* opening turn stores a text returned by the narration service as the
\* session's scene_text, and that text opens the turn's narration.
C17_OpeningSceneFromNarration ==
  [][OpeningTurn =>
       /\ session'.scene_text \in ServiceNarrations
       /\ Get(result').narration[1] = session'.scene_text]_vars

\* duration a lasts at least as long as b: an indefinite duration (None)
\* is longer than any number
DurationAtLeast(a, b) == IsNone(a) \/ (~IsNone(b) /\ Get(a) >= Get(b))

\* C21: under repeated apply of a status, with any level and duration
\* arguments, the level of an entry never decreases and its remaining
\* duration never decreases, an indefinite duration (None) counting as
\* longer than any number, so that an indefinite effect stays indefinite.
C21_ApplyMonotone ==
  [][\A n \in DOMAIN status_ledger :
       /\ n \in DOMAIN status_ledger'
       /\ status_ledger'[n].level >= status_ledger[n].level
       /\ DurationAtLeast(status_ledger'[n].duration, status_ledger[n].duration)]_vars

(* ------------------------ effects specification ----------------------- *)
\* the effects check makes a call while every entry it leaves has stacks and
\* level between 0 and this
MaxLevel == 2

\* the statuses a combatant is exposed to and the triggers it meets, as the
\* callers spell them; "hit" is recognized for none of these statuses
EffectFamilies ==
  {[names |-> {<<"B", "l", "e", "e", "d", "i", "n", "g">>, <<"d", "i", "s", "e", "a", "s", "e">>},
    triggers |-> {<<"m", "o", "v", "e">>, <<" ", "D", "a", "y", " ">>, <<"h", "i", "t">>}],
   [names |-> {<<" ", "i", "g", "n", "i", "t", "e", "d", " ">>, <<"T", "o", "x", "i", "n">>},
    triggers |-> {<<"i", "g", "n", "i", "t", "e">>, <<"d", "o", "s", "e">>, <<"h", "i", "t">>}],
   [names |-> {<<"A", "S", "P", "H", "Y", "X", "I", "A", "T", "I", "O", "N">>, <<"S", "t", "u", "n">>},
    triggers |-> {<<"n", "o", "_", "a", "i", "r">>, <<"r", "e", "f", "r", "e", "s", "h">>, <<"h", "i", "t">>}]}

\* stacks, level and duration arguments of apply_status, amounts of
\* ramp_status: zero and negative ones included
EffectStacks == {-2, 0, 1}
EffectLevels == {0, 1, 2}
EffectDurations == {None, Some(2)}
RampAmounts == {-1, 0, 1}

TickTypes == {<<"t", "u", "r", "n">>, <<" ", "D", "a", "y", " ">>}

\* the call made on the ledger and what it returned beside the ledger
StatusCall(family, op, name, key, amount, hp_delta, expired) ==
  [family |-> family, op |-> op, name |-> name, key |-> key, amount |-> amount,
   hp_delta |-> hp_delta, expired |-> expired]

InitEffects ==
  /\ status_ledger = None
  /\ \E family \in EffectFamilies :
       status_call = StatusCall(family, "none", "", <<>>, 0, 0, {})
  /\ fight = None
  /\ world = None
  /\ memory = None
  /\ request = None
  /\ InitLedgerIdle
  /\ session = NewSession(0, "Space", DevOff, "", NoScene)
  /\ character = NewCharacter(None, None)
  /\ store = NewStore(<<>>)
  /\ dice = None
  /\ result = None
  /\ decision = None
  /\ InitRouteIdle

\* the ledger is within the bound of the check
EffectsBounded(statuses) ==
  \A n \in DOMAIN statuses :
    /\ statuses[n].stacks \in 0..MaxLevel
    /\ statuses[n].level \in 0..MaxLevel

\* the ledger returned replaces the combatant's ledger
EffectReturned(statuses, op, name, key, amount, hp_delta, expired) ==
  /\ EffectsBounded(statuses)
  /\ status_ledger' = statuses
  /\ status_call' = StatusCall(status_call.family, op, name, key, amount, hp_delta,
                             expired)

EffectFrame ==
  /\ UNCHANGED ledgerVars
  /\ UNCHANGED <<fight, world, memory, request>>
  /\ UNCHANGED turnVars
  /\ UNCHANGED routeVars

\* apply_status on the combatant's ledger
ApplyEffect ==
  /\ \E name \in status_call.family.names, stacks \in EffectStacks,
        level \in EffectLevels, duration \in EffectDurations :
       EffectReturned(apply_status(status_ledger, name, stacks, level, duration).statuses,
                      "apply", normalize_status(name), <<>>, 0, 0, {})
  /\ EffectFrame

\* ramp_status on the combatant's ledger
RampEffect ==
  /\ \E name \in status_call.family.names,
        trigger \in status_call.family.triggers, amount \in RampAmounts :
       EffectReturned(ramp_status(status_ledger, name, trigger, amount).statuses,
                      "ramp", normalize_status(name), LowerText(Strip(trigger)),
                      amount, 0, {})
  /\ EffectFrame

\* the tick returned r
Ticked(r, tick_key) ==
  EffectReturned(r.statuses, "tick", "", tick_key, 0, r.hp_delta, r.expired)

\* tick_statuses on the combatant's ledger
TickEffect ==
  /\ \E tick_type \in TickTypes :
       Ticked(tick_statuses(status_ledger, tick_type), LowerText(Strip(tick_type)))
  /\ EffectFrame

NextEffects == ApplyEffect \/ RampEffect \/ TickEffect

SpecEffects == InitEffects /\ [][NextEffects]_vars

(* --------------------------- effects properties ------------------------ *)
\* two ledgers hold the same entries
SameLedger(a, b) == DOMAIN a = DOMAIN b /\ \A n \in DOMAIN a : a[n] = b[n]

\* C22: after any sequence of apply, ramp and tick operations starting from
\* an empty ledger, with any integer stacks and amount arguments (zero and
\* negative included), every entry present in the ledger has stacks >= 1.
C22_StacksAtLeastOne ==
  \A n \in DOMAIN status_ledger : status_ledger[n].stacks >= 1

\* C23: for every status, every trigger and every integer amount, a ramp
\* never lowers the level of the entry it ramps: the level after the ramp is
\* >= the level before it.
C23_RampKeepsLevel ==
  [][(status_call'.op = "ramp" /\ status_call'.name \in DOMAIN status_ledger) =>
       status_ledger'[status_call'.name].level
         >= status_ledger[status_call'.name].level]_vars

\* the trigger keys ramp_status recognizes for a status
RecognizedTriggers(canonical) ==
  CASE canonical = "Bleeding" -> {<<"m", "o", "v", "e">>}
    [] canonical = "Ignited" -> {<<"i", "g", "n", "i", "t", "e">>, <<"f", "u", "e", "l">>}
    [] canonical = "Cold" -> {<<"c", "o", "l", "d">>, <<"e", "x", "p", "o", "s", "u", "r", "e">>}
    [] canonical = "Disease" -> {<<"d", "a", "y">>}
    [] canonical = "Asphyxiation" -> {<<"n", "o", "_", "a", "i", "r">>}
    [] canonical = "Toxin" -> {<<"e", "x", "p", "o", "s", "e", "d">>, <<"d", "o", "s", "e">>}
    [] canonical = "Injured" -> {<<"w", "o", "r", "s", "e", "n">>, <<"h", "i", "t">>}
    [] canonical \in {"Hidden", "Concentration", "Stun"} -> {<<"r", "e", "f", "r", "e", "s", "h">>}
    [] OTHER -> {}

\* the step is a ramp whose trigger is not recognized for the status named
UnrecognizedRamp ==
  /\ status_call'.op = "ramp"
  /\ status_call'.key \notin RecognizedTriggers(status_call'.name)

\* C24: a ramp whose trigger is not recognized for the named status is a
\* no-op: the returned ledger equals the input ledger, both when the status
\* is already in the ledger and when it is absent from it.
C24_UnrecognizedRampNoOp ==
  [][UnrecognizedRamp => SameLedger(status_ledger', status_ledger)]_vars

\* the level of the status in the ledger, 0 when it is absent
LevelIn(statuses, n) == IF n \in DOMAIN statuses THEN statuses[n].level ELSE 0
StacksIn(statuses, n) == IF n \in DOMAIN statuses THEN statuses[n].stacks ELSE 0
\* the same with every present stacks and level counted as at least 1
FlooredLevelIn(statuses, n) ==
  IF n \in DOMAIN statuses THEN Max(1, statuses[n].level) ELSE 0
FlooredStacksIn(statuses, n) ==
  IF n \in DOMAIN statuses THEN Max(1, statuses[n].stacks) ELSE 0

\* the HP loss of a tick as stated: stacks*level for Bleeding, 2*level for
\* Ignited and for Asphyxiation, level for Toxin on a turn tick; the new
\* level of Disease, its level raised by 1, on a day tick
StatedLoss(statuses, tick_key) ==
  IF tick_key = <<"t", "u", "r", "n">>
  THEN StacksIn(statuses, "Bleeding") * LevelIn(statuses, "Bleeding")
       + 2 * LevelIn(statuses, "Ignited") + 2 * LevelIn(statuses, "Asphyxiation")
       + LevelIn(statuses, "Toxin")
  ELSE IF tick_key = <<"d", "a", "y">> /\ "Disease" \in DOMAIN statuses
  THEN statuses["Disease"].level + 1
  ELSE 0

\* the same with stacks and levels counted as at least 1
FlooredLoss(statuses, tick_key) ==
  IF tick_key = <<"t", "u", "r", "n">>
  THEN FlooredStacksIn(statuses, "Bleeding") * FlooredLevelIn(statuses, "Bleeding")
       + 2 * FlooredLevelIn(statuses, "Ignited")
       + 2 * FlooredLevelIn(statuses, "Asphyxiation")
       + FlooredLevelIn(statuses, "Toxin")
  ELSE IF tick_key = <<"d", "a", "y">> /\ "Disease" \in DOMAIN statuses
  THEN FlooredLevelIn(statuses, "Disease") + 1
  ELSE 0

\* the step is a tick of the ledger
TickStep == status_call'.op = "tick"

\* a day tick of a ledger that holds Disease
DiseaseDay ==
  TickStep /\ status_call'.key = <<"d", "a", "y">> /\ "Disease" \in DOMAIN status_ledger

\* C25 as stated: tick computes the HP delta as the sum over the ledger of
\* stacks*level for Bleeding, 2*level for Ignited and for Asphyxiation, level
\* for Toxin on a turn tick, and on a day tick Disease raises its own level
\* by 1 and deals the new level; the delta is never positive.
C25_TickDamageAsStated ==
  [][/\ TickStep =>
          /\ status_call'.hp_delta = 0 - StatedLoss(status_ledger, status_call'.key)
          /\ status_call'.hp_delta <= 0
     /\ DiseaseDay =>
          status_ledger'["Disease"].level = status_ledger["Disease"].level + 1]_vars

\* C25: the same with the stacks and the level of every entry counted as at
\* least 1: Bleeding deals max(1, stacks) * max(1, level), Ignited and
\* Asphyxiation 2 * max(1, level), Toxin max(1, level); on a day tick Disease
\* sets its level to max(1, level) + 1 and deals that; every other entry
\* deals nothing; the delta is never positive.
C25_TickDamageFloored ==
  [][/\ TickStep =>
          /\ status_call'.hp_delta = 0 - FlooredLoss(status_ledger, status_call'.key)
          /\ status_call'.hp_delta <= 0
     /\ DiseaseDay =>
          status_ledger'["Disease"].level
            = Max(1, status_ledger["Disease"].level) + 1]_vars

\* a turn tick has cost 5 HP: Ignited at level 2 and Toxin at level 1
C25_Witness ==
  /\ status_call.op = "tick"
  /\ status_call.key = <<"t", "u", "r", "n">>
  /\ status_call.hp_delta = -5
  /\ DOMAIN status_ledger = {"Ignited", "Toxin"}
  /\ status_ledger["Ignited"].level = 2
  /\ status_ledger["Toxin"].level = 1

(* ------------------------ resolver specification ----------------------- *)
\* calls of resolve_attack and end_turn in one fight
MaxBlows == 2

\* the attackers: a dice weapon, a weapon with a negative modifier, and a
\* weapon that deals a fixed 3
Attackers ==
  { CombatantState("Raider", 11, 1, 4, 2, 1, Some(Weapon("Blade", <<"1", "d", "6", "+", "1">>, 1))),
    CombatantState("Brawler", 10, 0, 5, 2, 2, Some(Weapon("Sap", <<"1", "d", "4", "-", "5">>, 0))),
    [CombatantState("Gunner", 13, 0, 6, 0, 3, Some(Weapon("Stunner", <<"3">>, 1)))
       EXCEPT !.attack_bonus = 1, !.damage_bonus = 2] }

\* the defenders: one armed and armored, one bleeding and poisoned who
\* counters bare-handed
Defenders ==
  { CombatantState("Guard", 12, 2, 6, 3, 0, Some(Weapon("Baton", <<"1", "d", "4">>, 0))),
    [CombatantState("Scout", 9, 0, 3, 1, 1, None)
       EXCEPT !.statuses =
         apply_status(apply_status(<<>>, <<"B", "l", "e", "e", "d", "i", "n", "g">>, 2, 2, None).statuses,
                      <<"T", "o", "x", "i", "n">>, 1, 1, None).statuses] }

CalledShots == {<<FALSE, None>>, <<TRUE, None>>, <<TRUE, Some("slow")>>}
\* reaction, reaction_bonus, reaction_ap
Reactions ==
  {<<None, 0, 0>>, <<Some("dodge"), 0, 0>>, <<Some("dodge"), 3, 0>>,
   <<Some("block"), 0, 5>>, <<Some("counter"), 0, 0>>}
AttackOverrides == {None, Some(19), Some(9)}
\* counter_roll_override, read only where the counter is resolved
CounterOverrides == {None, Some(15)}

Fight(session_, attacker, defender, op, options, who, raised, outcome, blows) ==
  [session |-> session_, attacker |-> attacker, defender |-> defender, op |-> op,
   options |-> options, who |-> who, raised |-> raised, outcome |-> outcome,
   blows |-> blows]

InitResolve ==
  /\ \E seed \in Seeds \cup {CritSeed}, attacker \in Attackers, defender \in Defenders :
       fight = Fight(SessionState(seed), attacker,
                     defender, "none", DefaultOptions, "", FALSE, None, 0)
  /\ status_ledger = None
  /\ status_call = None
  /\ world = None
  /\ memory = None
  /\ request = None
  /\ InitLedgerIdle
  /\ session = NewSession(0, "Space", DevOff, "", NoScene)
  /\ character = NewCharacter(None, None)
  /\ store = NewStore(<<>>)
  /\ dice = None
  /\ result = None
  /\ decision = None
  /\ InitRouteIdle

ResolveFrame ==
  /\ UNCHANGED ledgerVars
  /\ UNCHANGED <<status_ledger, status_call, world, memory, request>>
  /\ UNCHANGED turnVars
  /\ UNCHANGED routeVars

\* resolve_attack returned r (or raised) for the options
Resolved(r, options) ==
  fight' = Fight(r.session, r.attacker, r.defender, "attack", options, "",
                 r.raised, r.result, fight.blows + 1)

\* resolve_attack(session, attacker, defender, **options)
ResolveAttack ==
  /\ fight.blows < MaxBlows
  /\ \E shot \in CalledShots, reaction \in Reactions, override \in AttackOverrides :
     \E counter_override \in IF reaction[1] = Some("counter") THEN CounterOverrides
                              ELSE {None} :
       Resolved(resolve_attack(fight.session, fight.attacker, fight.defender,
                               ResolveOptions(shot[1], shot[2], reaction[1],
                                              reaction[2], reaction[3],
                                              override, counter_override)),
                ResolveOptions(shot[1], shot[2], reaction[1], reaction[2],
                               reaction[3], override, counter_override))
  /\ ResolveFrame

\* end_turn returned e for the combatant named
TurnEnded(e, who) ==
  fight' = [fight EXCEPT ![who] = e.combatant, !.op = "end_turn",
                         !.options = DefaultOptions, !.who = who,
                         !.raised = FALSE, !.outcome = Some(e.info),
                         !.blows = @ + 1]

\* end_turn(combatant, tick_type=...) for either combatant
EndTurn ==
  /\ fight.blows < MaxBlows
  /\ \E who \in {"attacker", "defender"}, tick_type \in {<<"t", "u", "r", "n">>, <<"d", "a", "y">>} :
       TurnEnded(end_turn(fight[who], tick_type), who)
  /\ ResolveFrame

NextResolve == ResolveAttack \/ EndTurn

SpecResolve == InitResolve /\ [][NextResolve]_vars

(* --------------------------- resolver properties ----------------------- *)
\* the step is a call of resolve_attack that returned a result
AttackStep == fight'.op = "attack" /\ ~fight'.raised

\* the result it returned
Outcome == Get(fight'.outcome)

\* the dodge bonus of the options: the reaction bonus given, or 2 when none
\* is given, for a dodge; 0 for any other reaction
StatedDodge(options) ==
  IF options.reaction = Some("dodge")
  THEN (IF options.reaction_bonus = 0 THEN 2 ELSE options.reaction_bonus)
  ELSE 0

\* C26: resolve_attack reports a hit exactly when the attack total is >= the
\* armor threshold, where the attack total is the d20 roll + the attacker's
\* skill + attribute + attack bonus, - 5 when a called shot was declared,
\* and the armor threshold is the defender's armor rating + the dodge bonus.
C26_HitIffTotalReachesThreshold ==
  [][AttackStep =>
       /\ Outcome.attack_total =
            Outcome.attack_roll + fight.attacker.skill + fight.attacker.attr
              + fight.attacker.attack_bonus
              - (IF fight'.options.called_shot THEN 5 ELSE 0)
       /\ Outcome.target_ar =
            fight.defender.armor_rating + StatedDodge(fight'.options)
       /\ Outcome.hit = (Outcome.attack_total >= Outcome.target_ar)
       /\ (IsNone(fight'.options.attack_roll_override) =>
             /\ Len(fight'.session.turn_log) > Len(fight.session.turn_log)
             /\ Outcome.attack_roll =
                  fight'.session.turn_log[Len(fight.session.turn_log) + 1].result)]_vars

\* a called shot against a dodge with a bonus of 3 has hit with a total
\* equal to the threshold
C26_Witness ==
  /\ fight.op = "attack"
  /\ ~fight.raised
  /\ fight.options.called_shot
  /\ fight.options.reaction = Some("dodge")
  /\ fight.options.reaction_bonus = 3
  /\ Get(fight.outcome).hit
  /\ Get(fight.outcome).attack_total = Get(fight.outcome).target_ar

\* the armor points a hit can spend: the defender's, and those of a block
AvailableAP(options, defender) ==
  defender.ap + (IF options.reaction = Some("block") THEN options.reaction_ap ELSE 0)

\* no armor or hit points below 0
Standing(combatant) == combatant.ap >= 0 /\ combatant.hp >= 0

\* C27: on a hit the damage is absorbed by AP before HP: the HP is reduced
\* only by the part of the damage above the available AP; no returned
\* combatant, defender or attacker after a counter, has AP or HP below 0; and
\* end_turn clamps the HP at 0 after the status tick.
C27_ArmorAbsorbsFirst ==
  [][/\ (AttackStep /\ Outcome.hit) =>
          /\ fight'.defender.hp =
               Max(0, fight.defender.hp
                        - Max(0, Outcome.damage
                                   - AvailableAP(fight'.options, fight.defender)))
          /\ fight'.defender.hp = Outcome.hp_after
          /\ fight'.defender.ap = Outcome.ap_after
     /\ (AttackStep \/ fight'.op = "end_turn") =>
          Standing(fight'.attacker) /\ Standing(fight'.defender)
     /\ fight'.op = "end_turn" =>
          fight'[fight'.who].hp =
            Max(0, fight[fight'.who].hp + Get(fight'.outcome).hp_delta)]_vars

\* a hit for more than the armor points has spent them all and taken the
\* rest from the hit points, some of which are left
C27_Witness ==
  /\ fight.op = "attack"
  /\ ~fight.raised
  /\ Get(fight.outcome).hit
  /\ Get(fight.outcome).ap_before > 0
  /\ Get(fight.outcome).damage > Get(fight.outcome).ap_before
  /\ Get(fight.outcome).ap_after = 0
  /\ Get(fight.outcome).hp_after =
       Get(fight.outcome).hp_before
         - (Get(fight.outcome).damage - Get(fight.outcome).ap_before)
  /\ Get(fight.outcome).hp_after > 0

\* the ledger entry of the damage roll of a hit: the last one, a hit is not
\* countered
DamageRoll == fight'.session.turn_log[Len(fight'.session.turn_log)]

\* C28: on a hit a natural 19 or 20 is a critical, and the damage is the
\* dice sum, doubled exactly when critical, + the formula's modifier once +
\* the weapon bonus + the attacker's damage bonus; so a hit that is not
\* critical deals roll(weapon formula) + weapon bonus + damage bonus, for
\* every formula roll accepts, bare integers included.
C28_DamageOfHit ==
  [][(AttackStep /\ Outcome.hit) =>
       /\ Outcome.crit = (Outcome.attack_roll >= 19)
       /\ Outcome.damage =
            (DamageRoll.result - DamageRoll.modifier)
              * (IF Outcome.crit THEN 2 ELSE 1)
            + DamageRoll.modifier
            + Get(fight.attacker.weapon).bonus + fight.attacker.damage_bonus]_vars

(* ----------------------- compaction specification ---------------------- *)
\* what _compact_turn_log_entry stores of a turn (the rolls are no part of
\* a fact)
LogEntry(action, power, item, hit, damage) ==
  [action |-> action, power |-> power, item |-> item,
   outcome |-> [hit |-> hit, damage |-> damage]]

\* the turns a session of each kind logs; n is the number of the turn:
\* "fight" hits for a damage that differs from turn to turn, "drill" repeats
\* three damages, "camp" explores or uses an item whose name holds " | "
LogKinds == {"fight", "drill", "camp"}
NextEntry(kind, n) ==
  IF kind = "fight" THEN LogEntry(<<"a", "t", "t", "a", "c", "k">>, <<>>, <<>>, Some(TRUE), Some(n))
  ELSE IF kind = "drill"
  THEN LogEntry(<<"a", "t", "t", "a", "c", "k">>, <<"S", "t", "r", "i", "k", "e">>, <<>>, Some(n % 2 = 0), Some(n % 3))
  ELSE IF n % 2 = 0 THEN LogEntry(<<"e", "x", "p", "l", "o", "r", "e">>, <<>>, <<>>, None, None)
  ELSE LogEntry(<<"u", "s", "e", "_", "i", "t", "e", "m">>, <<>>, <<"r", "o", "p", "e", " ", "|", " ", "h", "o", "o", "k">>, None, None)

\* the first turns of a session of the kind
LoggedTurns(kind, n) == [i \in 1..n |-> NextEntry(kind, i)]

\* the turns a check starts after: none, and one short of each threshold
InitLogged == {0, RECENT_TURN_LIMIT, TurnCountThreshold - 1}

\* the turns a check adds to them
MaxAppended == 3

\* the metadata, the kind of session, its turns so far and at the start of
\* the check, and the last call
Memory(kind, turns, metadata, op, before, threshold, start) ==
  [kind |-> kind, turns |-> turns, metadata |-> metadata, op |-> op,
   before |-> before, threshold |-> threshold, start |-> start]

InitCompact ==
  /\ \E kind \in LogKinds, n \in InitLogged :
       memory = Memory(kind, n,
                       PromoteMetadata(Metadata(LoggedTurns(kind, n), None, None),
                                       TurnCountThreshold),
                       "none", <<>>, 0, n)
  /\ status_ledger = None
  /\ status_call = None
  /\ fight = None
  /\ world = None
  /\ request = None
  /\ InitLedgerIdle
  /\ session = NewSession(0, "Space", DevOff, "", NoScene)
  /\ character = NewCharacter(None, None)
  /\ store = NewStore(<<>>)
  /\ dice = None
  /\ result = None
  /\ decision = None
  /\ InitRouteIdle

CompactFrame ==
  /\ UNCHANGED ledgerVars
  /\ UNCHANGED <<status_ledger, status_call, fight, world, request>>
  /\ UNCHANGED turnVars
  /\ UNCHANGED routeVars

\* _append_turn_log: the turn's entry is added to the log
AppendTurn ==
  /\ memory.turns < memory.start + MaxAppended
  /\ memory' = [memory EXCEPT
                  !.turns = @ + 1,
                  !.metadata.turn_log = Append(@, NextEntry(memory.kind, memory.turns + 1)),
                  !.op = "append", !.before = <<>>, !.threshold = 0]
  /\ CompactFrame

\* promote_memories_for_session(db, session, turn_count_threshold)
Promote ==
  /\ \E t \in PromoteThresholds :
       memory' = [memory EXCEPT
                    !.metadata = PromoteMetadata(memory.metadata, t),
                    !.op = "promote", !.before = memory.metadata.turn_log,
                    !.threshold = t]
  /\ CompactFrame

NextCompact == AppendTurn \/ Promote

SpecCompact == InitCompact /\ [][NextCompact]_vars

\* no member of the sequence occurs twice
NoDuplicates(seq) == \A i, j \in 1..Len(seq) : seq[i] = seq[j] => i = j

\* the lines of the rolling summary
SummaryLines(rolling_summary) ==
  IF IsNone(rolling_summary) \/ Len(Get(rolling_summary)) = 0 THEN <<>>
  ELSE Split(Get(rolling_summary), SUMMARY_SEPARATOR)

\* the last call was a compaction of a log that had reached its threshold
\* and held more than 30 entries
Compacted ==
  /\ memory.op = "promote"
  /\ Len(memory.before) >= memory.threshold
  /\ Len(memory.before) > 30

\* C29: once the turn log has reached the threshold and holds more than 30
\* entries, compaction leaves a turn log that is exactly its 30 most recent
\* entries in their order, a recent_summary of at most 30 facts and a
\* rolling summary of at most 800 characters without a fact line twice;
\* below the threshold the turn log is never truncated.
C29_CompactionBounds ==
  /\ Compacted =>
       /\ memory.metadata.turn_log
            = SubSeq(memory.before, Len(memory.before) - 29, Len(memory.before))
       /\ ~IsNone(memory.metadata.recent_summary)
       /\ Len(Get(memory.metadata.recent_summary)) <= 30
       /\ ~IsNone(memory.metadata.rolling_summary)
       /\ Len(Get(memory.metadata.rolling_summary)) <= 800
       /\ NoDuplicates(SummaryLines(memory.metadata.rolling_summary))
  /\ (memory.op = "promote" /\ Len(memory.before) < memory.threshold) =>
       memory.metadata.turn_log = memory.before

(* ---------------------- two-session specification ---------------------- *)
\* the sessions whose turns run side by side
SessionIds == {1, 2}

\* docs/jsons/memory_recall.json: absent, or a dict with a note title
RecallFiles == {None, Some([note_title |-> "Memory Recall"])}

\* json.loads of the file, {} when it does not exist
FileConfig(file) == IF IsNone(file) THEN [note_title |-> None] ELSE
  [note_title |-> Some(Get(file).note_title)]

\* faulty variant of _load_memory_recall_config: a config already cached by
\* an earlier turn is returned empty
_load_memory_recall_config_emptied(cache, file) ==
  IF ~IsNone(cache) THEN [config |-> [note_title |-> None], cache |-> cache]
  ELSE [config |-> FileConfig(file), cache |-> Some(FileConfig(file))]

\* _load_memory_recall_config: the module's cached config when one is set,
\* else the file's, which is cached; returns the config and the cache after
_load_memory_recall_config(cache, file) ==
  IF ~IsNone(cache) THEN [config |-> Get(cache), cache |-> cache]
  ELSE [config |-> FileConfig(file), cache |-> Some(FileConfig(file))]

\* _create_project: the row is flushed, the database assigns the next id of
\* the projects table, and the row is returned with it
_create_project(last_id, payload) ==
  [id |-> last_id + 1, type |-> payload.type,
   work_units_total |-> payload.work_units_total,
   work_units_done |-> payload.work_units_done, status |-> payload.status]

\* the turns the two sessions make: a plan that creates a project, a memory
\* recall, an attack and an exploration
SessionInputs ==
  {TurnInput(PlainText, None,
             Llm(Some(TurnEnvelope("gm", "PROTO_ROUTINE", "high", <<>>, Some(BuildPlan))),
                 Some(AttackIntent), "Stub narration."), "db"),
   TurnInput(RecallText, None, Llm(None, None, "Stub narration."), "db"),
   TurnInput(PlainText, Some(AttackIntent), Llm(None, None, "Stub narration."), "db"),
   TurnInput(PlainText, Some(Intent("explore", "", "", "")),
             Llm(None, None, "Stub narration."), "db")}

\* the rows of a session: the session, its character and its other rows
Rows(session_, character_, store_) ==
  [session |-> session_, character |-> character_, store |-> store_]

\* a session with its seed, on an established scene
InitRows(sid) ==
  Rows(NewSession(sid - 1, "Space", DevOff, "Test scene.",
                  EstablishedScene("Test scene.")),
       NewCharacter(Some([actions |-> MaxActions, reactions |-> 1]), Some(5)),
       NewStore(<<>>))

\* the turn of a session: its phase, its input, the rows committed, the rows
\* the turn works on and the result it returns
SessionTurn(phase, input, rows, loaded, result_) ==
  [phase |-> phase, input |-> input, rows |-> rows, loaded |-> loaded,
   result |-> result_]

\* what the processes share: the last id of the projects table, the config
\* file and the module's config cache
InitSessions ==
  /\ \E file \in RecallFiles :
       world = [last_project_id |-> 0, file |-> file, recall_config |-> None,
                turns |-> [sid \in SessionIds |->
                             SessionTurn("idle", None, InitRows(sid), None, None)]]
  /\ status_ledger = None
  /\ status_call = None
  /\ fight = None
  /\ memory = None
  /\ request = None
  /\ InitLedgerIdle
  /\ session = NewSession(0, "Space", DevOff, "", NoScene)
  /\ character = NewCharacter(None, None)
  /\ store = NewStore(<<>>)
  /\ dice = None
  /\ result = None
  /\ decision = None
  /\ InitRouteIdle

SessionsFrame ==
  /\ UNCHANGED ledgerVars
  /\ UNCHANGED <<status_ledger, status_call, fight, memory, request>>
  /\ UNCHANGED turnVars
  /\ UNCHANGED routeVars

\* execute_turn opens its database session and loads the session's rows
LoadTurn(sid) ==
  /\ world.turns[sid].phase = "idle"
  /\ \E inp \in SessionInputs :
       world' = [world EXCEPT !.turns[sid].phase = "loaded",
                              !.turns[sid].input = Some(inp),
                              !.turns[sid].loaded = Some(world.turns[sid].rows)]
  /\ SessionsFrame

\* the turn's memory recall note carries the title of the config
TitledNotes(notes, config) ==
  [i \in 1..Len(notes) |->
     IF i = Len(notes)
     THEN [player_text |-> notes[i].player_text, verified |-> notes[i].verified,
           title |-> config.note_title]
     ELSE notes[i]]

\* the outcome of execute_turn_for_state with what it took from outside the
\* session: the id of the project row it created, the config of its recall
Ran(out, last_project_id, loaded_config) ==
  [rows |->
     Rows(IF out.result.outcome.kind = "memory_recall"
          THEN [out.session EXCEPT
                  !.gm_memory_notes = TitledNotes(@, loaded_config.config)]
          ELSE out.session,
          out.character,
          IF IsNone(out.result.project_created) THEN out.store
          ELSE [out.store EXCEPT
                  !.projects[Len(out.store.projects)] =
                    _create_project(last_project_id, @)]),
   result |->
     IF IsNone(out.result.project_created) THEN out.result
     ELSE [out.result EXCEPT
             !.project_created =
               Some(_create_project(last_project_id, Get(@)))],
   last_project_id |->
     IF IsNone(out.result.project_created) THEN last_project_id
     ELSE last_project_id + 1,
   recall_config |->
     IF out.result.outcome.kind = "memory_recall" THEN loaded_config.cache
     ELSE None]

\* execute_turn_for_state on the loaded rows, for the input
RunOn(rows, inp, last_project_id, cache, file) ==
  Ran(execute_turn_for_state(rows.session, rows.character, rows.store,
                             inp.player_text, inp.intent_override, inp.llm,
                             inp.creators),
      last_project_id, _load_memory_recall_config(cache, file))

\* the turn ran and returned ran
TurnRan(sid, ran) ==
  world' = [world EXCEPT
              !.turns[sid].phase = "ran",
              !.turns[sid].loaded = Some(ran.rows),
              !.turns[sid].result = Some(ran.result),
              !.last_project_id = ran.last_project_id,
              !.recall_config = IF IsNone(ran.recall_config) THEN @
                                ELSE ran.recall_config]

\* execute_turn_for_state with the creator callbacks of execute_turn
RunTurn(sid) ==
  /\ world.turns[sid].phase = "loaded"
  /\ TurnRan(sid, RunOn(Get(world.turns[sid].loaded), Get(world.turns[sid].input),
                        world.last_project_id, world.recall_config, world.file))
  /\ SessionsFrame

\* promote_memories_for_session, then db.commit(): the rows are stored
CommitTurn(sid) ==
  /\ world.turns[sid].phase = "ran"
  /\ world' = [world EXCEPT
                 !.turns[sid].phase = "committed",
                 !.turns[sid].rows =
                   [Get(world.turns[sid].loaded) EXCEPT
                      !.session = promote_memories_for_session(@, TurnCountThreshold)]]
  /\ SessionsFrame

NextSessions == \E sid \in SessionIds : LoadTurn(sid) \/ RunTurn(sid) \/ CommitTurn(sid)

SpecSessions == InitSessions /\ [][NextSessions]_vars

(* -------------------------- two-session properties --------------------- *)
\* the rows and the result of the session's turn when it runs alone: on its
\* own rows, the projects table and the cache as they were at the start
Alone(sid) ==
  RunOn(InitRows(sid), Get(world.turns[sid].input), 0, None, world.file)

AloneRows(sid) ==
  [Alone(sid).rows EXCEPT
     !.session = promote_memories_for_session(@, TurnCountThreshold)]

\* rows and results without the ids the database assigned
ProjectWithoutId(project) == [project EXCEPT !.id = 0]
RowsWithoutIds(rows) ==
  [rows EXCEPT !.store.projects =
     [i \in 1..Len(rows.store.projects) |-> ProjectWithoutId(rows.store.projects[i])]]
ResultWithoutIds(r) ==
  IF IsNone(r.project_created) THEN r
  ELSE [r EXCEPT !.project_created = Some(ProjectWithoutId(Get(@)))]

Committed(sid) == world.turns[sid].phase = "committed"

Timed(statuses) == {n \in DOMAIN statuses : ~IsNone(statuses[n].duration)}

\* C31: on a turn tick every entry with a numeric duration has it
\* decremented by 1; an entry whose duration reaches 0 is removed from the
\* ledger and named in the expired list, after dealing its damage for that
\* tick; an entry whose duration is None is never removed by a tick; a day
\* tick changes no duration.
C31_TickDurations ==
  [][TickStep =>
       /\ status_call'.key = <<"t", "u", "r", "n">> =>
            /\ \A n \in Timed(status_ledger) :
                 IF Get(status_ledger[n].duration) - 1 <= 0
                 THEN n \notin DOMAIN status_ledger' /\ n \in status_call'.expired
                 ELSE /\ n \in DOMAIN status_ledger'
                      /\ n \notin status_call'.expired
                      /\ status_ledger'[n].duration
                           = Some(Get(status_ledger[n].duration) - 1)
            /\ status_call'.expired \subseteq Timed(status_ledger)
            /\ status_call'.hp_delta = 0 - FlooredLoss(status_ledger, <<"t", "u", "r", "n">>)
       /\ \A n \in DOMAIN status_ledger \ Timed(status_ledger) :
            n \in DOMAIN status_ledger' /\ IsNone(status_ledger'[n].duration)
       /\ status_call'.key = <<"d", "a", "y">> =>
            /\ DOMAIN status_ledger' = DOMAIN status_ledger
            /\ status_call'.expired = {}
            /\ \A n \in DOMAIN status_ledger :
                 status_ledger'[n].duration = status_ledger[n].duration]_vars

\* a turn tick has removed Bleeding, which dealt its damage, and has kept
\* the Disease that has no duration
C31_Witness ==
  /\ status_call.op = "tick"
  /\ status_call.key = <<"t", "u", "r", "n">>
  /\ status_call.expired = {"Bleeding"}
  /\ status_call.hp_delta < 0
  /\ DOMAIN status_ledger = {"Disease"}
  /\ IsNone(status_ledger["Disease"].duration)

(* ramping Bleeding on a move *)

\* a ramp of Bleeding on the move trigger returned
BleedingMove ==
  /\ status_call'.op = "ramp"
  /\ status_call'.name = "Bleeding"
  /\ status_call'.key = <<"m", "o", "v", "e">>

\* the entry a ramp of the status starts from
EntryBefore(statuses, canonical) ==
  IF canonical \in DOMAIN statuses THEN statuses[canonical]
  ELSE StatusEntry(1, 1, None)

\* C32: ramping Bleeding on a move trigger increases its stacks by the
\* amount, raises its level to at least the new stack count (and never lowers
\* it) and its duration to at least 3; applied to Bleeding(stacks 1, level 1,
\* duration 2) with amount 1 it gives stacks 2, level 2, duration 3; and a turn
\* tick of a ledger that holds only Bleeding with 2 stacks and a duration above
\* 1 yields an HP delta of -(2 * level) and a duration one less than before.
C32_BleedingRampOnMove ==
  [][/\ BleedingMove =>
          LET before == EntryBefore(status_ledger, "Bleeding")
              after == status_ledger'["Bleeding"]
          IN /\ "Bleeding" \in DOMAIN status_ledger'
             /\ after.stacks = before.stacks + status_call'.amount
             /\ after.level >= after.stacks
             /\ after.level >= before.level
             /\ ~IsNone(after.duration)
             /\ Get(after.duration) >= 3
             /\ Get(after.duration) >= DurationOrZero(before.duration)
             /\ (before = StatusEntry(1, 1, Some(2)) /\ status_call'.amount = 1
                   => after = StatusEntry(2, 2, Some(3)))
             /\ \A n \in DOMAIN status_ledger \ {"Bleeding"} :
                  n \in DOMAIN status_ledger' /\ status_ledger'[n] = status_ledger[n]
     /\ (/\ TickStep
         /\ status_call'.key = <<"t", "u", "r", "n">>
         /\ DOMAIN status_ledger = {"Bleeding"}
         /\ status_ledger["Bleeding"].stacks = 2
         /\ status_ledger["Bleeding"].level >= 1
         /\ ~IsNone(status_ledger["Bleeding"].duration)
         /\ Get(status_ledger["Bleeding"].duration) > 1)
        => /\ status_call'.hp_delta = 0 - 2 * status_ledger["Bleeding"].level
           /\ "Bleeding" \in DOMAIN status_ledger'
           /\ status_ledger'["Bleeding"].duration
                = Some(Get(status_ledger["Bleeding"].duration) - 1)
           /\ status_ledger'["Bleeding"].stacks = 2
           /\ status_ledger'["Bleeding"].level = status_ledger["Bleeding"].level]_vars

\* Bleeding(1, 1, 2) ramped on a move to (2, 2, 3) has ticked a turn: 4 HP
\* lost and 2 turns left
C32_Witness ==
  /\ status_call.op = "tick"
  /\ status_call.key = <<"t", "u", "r", "n">>
  /\ status_call.hp_delta = 0 - 4
  /\ DOMAIN status_ledger = {"Bleeding"}
  /\ status_ledger["Bleeding"] = StatusEntry(2, 2, Some(2))

(* block *)

\* the step is a call of resolve_attack with a block reaction that returned
BlockStep == AttackStep /\ fight'.options.reaction = Some("block")

StrikeRolls(before, after) ==
  {i \in Len(before) + 1 .. Len(after) : after[i].formula = <<"1", "d", "2", "0">>}

\* the counter the result reports
Counter == Get(Outcome.counter)

\* C34: a counter strike is resolved exactly when the attack missed and the
\* reaction is counter; it is resolved against the original attacker's armor
\* rating, with the defender's skill, attribute and attack bonus, and changes
\* only the attacker's AP and HP; it never triggers a further counter, so one
\* resolve_attack call resolves at most two strikes (two d20 rolls or
\* overrides, two damage rolls) and always returns.
C34_CounterOnMiss ==
  [][AttackStep =>
       /\ ~IsNone(Outcome.counter)
            <=> (~Outcome.hit /\ fight'.options.reaction = Some("counter"))
       /\ ~IsNone(Outcome.counter) =>
            /\ Counter.triggered
            /\ Counter.attack_total =
                 Counter.attack_roll + fight.defender.skill + fight.defender.attr
                   + fight.defender.attack_bonus
            /\ Counter.hit = (Counter.attack_total >= fight.attacker.armor_rating)
            /\ fight'.attacker =
                 [fight.attacker EXCEPT !.ap = Counter.ap_after, !.hp = Counter.hp_after]
            /\ Counter.ap_before = fight.attacker.ap
            /\ Counter.hp_before = fight.attacker.hp
            /\ (~Counter.hit =>
                  fight'.attacker = fight.attacker /\ Counter.damage = 0)
            /\ fight'.defender = fight.defender
            /\ "counter" \notin DOMAIN Counter
       /\ IsNone(Outcome.counter) => fight'.attacker = fight.attacker
       /\ Cardinality(StrikeRolls(fight.session.turn_log, fight'.session.turn_log)) <= 2
       /\ Len(fight'.session.turn_log) <= Len(fight.session.turn_log) + 4
       /\ (IsNone(Outcome.counter) =>
             Len(fight'.session.turn_log) <= Len(fight.session.turn_log) + 2)]_vars

\* a missed attack was countered and the counter hit: the attacker lost HP
\* or AP and the defender is as it was
C34_Witness ==
  /\ fight.op = "attack"
  /\ ~fight.raised
  /\ fight.blows = 1
  /\ ~Get(fight.outcome).hit
  /\ ~IsNone(Get(fight.outcome).counter)
  /\ Get(Get(fight.outcome).counter).hit
  /\ Get(Get(fight.outcome).counter).damage > 0
  /\ Get(Get(fight.outcome).counter).hp_after < Get(Get(fight.outcome).counter).hp_before
  /\ Len(fight.session.turn_log) = 3

(* an attack takes, it never gives *)

\* C40: an attack never raises a combatant's AP or HP: for every weapon
\* formula roll accepts (negative modifiers included) and every weapon or
\* damage bonus, the returned defender has AP <= its AP before and HP <= its
\* HP before, and on a miss the defender's AP, HP and statuses are unchanged.
C40_AttackNeverRaises ==
  [][AttackStep =>
       /\ fight'.defender.ap <= fight.defender.ap
       /\ fight'.defender.hp <= fight.defender.hp
       /\ (~Outcome.hit =>
             /\ fight'.defender.ap = fight.defender.ap
             /\ fight'.defender.hp = fight.defender.hp
             /\ fight'.defender.statuses = fight.defender.statuses)]_vars

(* scene establishment first *)

\* C35: scene establishment comes before every other branch of a turn: when
\* the session has no scene text at the start of a turn, that turn ends with
\* the "choose an action" clarification and suggested actions whatever the
\* player text is (memory-recall trigger phrases included), and no mechanics
\* execute in it.
C35_SceneBeforeEveryBranch ==
  [][(TurnReturns /\ ~_has_scene_text(session)) =>
       /\ Get(result').needs_clarification
       /\ Get(result').clarification_question = Some(ChooseActionQuestion)
       /\ Get(result').suggested_actions # <<>>
       /\ Get(result').outcome.kind = "scene_established"
       /\ IsEmptyDiff(Get(result').state_diff)
       /\ Get(result').rolls = <<>>
       /\ character' = character
       /\ session'.roll_index = session.roll_index
       /\ session'.turn_log = session.turn_log]_vars

(* memory recall *)

\* the turn inputs whose player text holds a memory-recall trigger phrase
RecallInputs == {inp \in TurnInputs : _is_memory_recall_request(inp.player_text)}

\* what the classifier and the intent extractor could return or raise
ClientAnswers ==
  {Llm(e, i, "") : e \in {None} \cup {Some(x) : x \in TurnEnvelopes},
                   i \in {None, Some(AttackIntent)}}

\* the turn on the input, the client answering a
RecallTurn(inp, a) ==
  execute_turn_for_state(session, character, store, inp.player_text,
                         inp.intent_override,
                         Llm(a.envelope, a.intent, inp.llm.narration), inp.creators)

\* the last GM memory note of the session
LastNote(s) == s.gm_memory_notes[Len(s.gm_memory_notes)]

\* a memory-recall turn returns whose player text holds a trigger phrase (the
\* note keeps the text); a recall the classifier routed is another turn
RecallReturns ==
  /\ TurnReturns
  /\ Get(result').outcome.kind = "memory_recall"
  /\ _is_memory_recall_request(LastNote(session').player_text)

\* C36: when the player text contains a memory-recall trigger phrase, the
\* turn never calls the classifier or the intent extractor (its outcome is
\* the same whatever they would return or raise, and nothing is routed),
\* appends exactly one unverified GM memory note to the session, and changes
\* no mechanical state (resources, roll_index, turn log; empty state diff).
C36_RecallTouchesOnlyNotes ==
  /\ [](\A inp \in RecallInputs :
          /\ RecallTurn(inp, inp.llm).result.outcome.kind = "memory_recall"
          /\ \A a \in ClientAnswers : RecallTurn(inp, a) = RecallTurn(inp, inp.llm))
  /\ [][RecallReturns =>
          /\ decision' = None
          /\ Get(result').validation_errors = <<>>
          /\ Len(session'.gm_memory_notes) = Len(session.gm_memory_notes) + 1
          /\ SubSeq(session'.gm_memory_notes, 1, Len(session.gm_memory_notes))
               = session.gm_memory_notes
          /\ ~LastNote(session').verified
          /\ character' = character
          /\ store' = store
          /\ dice' = None
          /\ session'.roll_index = session.roll_index
          /\ session'.turn_log = session.turn_log
          /\ session'.turn_index = session.turn_index
          /\ Get(result').rolls = <<>>
          /\ IsEmptyDiff(Get(result').state_diff)]_vars

\* a recall was asked with a structured attack attached: the note is there,
\* unverified, nothing was routed, logged or spent
C36_Witness ==
  /\ result # None
  /\ Get(result).outcome.kind = "memory_recall"
  /\ Len(session.gm_memory_notes) = 1
  /\ ~session.gm_memory_notes[1].verified
  /\ _is_memory_recall_request(session.gm_memory_notes[1].player_text)
  /\ decision = None
  /\ session.turn_log = <<>>
  /\ ~IsNone(character.resources)
  /\ Get(character.resources).actions = 1
  /\ IsEmptyDiff(Get(result).state_diff)

(* ------------------------- pacing specification ----------------------- *)
\* exploration and stagnation turns are accepted while the session's
\* exploration and stagnation indices sum to at most this
MaxPacing == 3

\* the clocks of a session: none, one not started, and one finished followed
\* by one a step short of its total
PacingClocks ==
  {<<>>, <<[steps_done |-> 0, steps_total |-> 2]>>,
   <<[steps_done |-> 2, steps_total |-> 2], [steps_done |-> 1, steps_total |-> 2]>>}

\* free text the classifier sends to the exploration or the stagnation
\* protocol, with the callbacks of execute_turn and without callbacks
PacingInputs ==
  {TurnInput(t, None,
             Llm(Some(TurnEnvelope("gm", p, "high", <<>>, None)), Some(AttackIntent),
                 "Stub narration."), c) :
     t \in {PlainText, SpaceshipText},
     p \in {"PROTO_EXPLORATION", "PROTO_STAGNATION"}, c \in {"db", "none"}}

InitPacing ==
  /\ \E seed \in Seeds :
       session = NewSession(seed, "Space", DevOff, "Test scene.",
                            EstablishedScene("Test scene."))
  /\ character = NewCharacter(None, Some(5))
  /\ \E clocks \in PacingClocks : store = NewStore(clocks)
  /\ dice = None
  /\ result = None
  /\ decision = None
  /\ InitRouteIdle
  /\ InitRulesIdle

\* execute_turn on a text the classifier sends to one of the two protocols
PacingTurn == TurnOver(PacingInputs, MaxPacing)

NextPacing == PacingTurn \/ ReturnResult

SpecPacing == InitPacing /\ [][NextPacing]_vars

(* ---------------------------- pacing properties ------------------------ *)
\* an exploration turn made with the callbacks of execute_turn returns
ExplorationReturns ==
  /\ TurnReturns
  /\ Get(result').outcome.kind = "exploration"
  /\ ~IsNone(Get(result').outcome.discovery.id)

\* the tag sets drawn
TagSets == {_extract_exploration_tags(session, inp.player_text) : inp \in PacingInputs}

\* C37: each exploration turn persists exactly one discovery and one thread
\* derived from it and increases the session's exploration_index by exactly
\* 1; the truth gradient is one of myth, partial, lost, false, dangerous and
\* is a function of (session seed, tag hash, exploration index) only; and the
\* value that seeds the choice differs between exploration index 0 and 1 for
\* the same seed and tags.
C37_ExplorationPersistsOne ==
  /\ [](\A tags \in TagSets :
          GradientSeed([session EXCEPT !.exploration_index = 0], tags)
            # GradientSeed([session EXCEPT !.exploration_index = 1], tags))
  /\ [][ExplorationReturns =>
          LET discovery == Get(result').outcome.discovery
              thread == Get(result').outcome.thread
          IN /\ store'.discoveries = Append(store.discoveries, discovery)
             /\ store'.threads = Append(store.threads, thread)
             /\ thread.discovery_id = discovery.id
             /\ thread = _build_thread_from_discovery(discovery, discovery.gradient)
             /\ thread.status = "open"
             /\ session'.exploration_index = session.exploration_index + 1
             /\ discovery.gradient \in {"myth", "partial", "lost", "false", "dangerous"}
             /\ discovery.gradient =
                  Gradients[RandBelow(NewRandom(session.rng_seed
                                                 + _stable_hash_tags(discovery.tags)
                                                 + session.exploration_index),
                                      5).value + 1]
             /\ store'.clocks = store.clocks
             /\ store'.projects = store.projects
             /\ store'.system_drafts = store.system_drafts]_vars

\* the second exploration of the same tags has returned another gradient
\* than the first: two discoveries and the two threads that name them are
\* stored, and the index is 2
C37_Witness ==
  /\ result # None
  /\ Get(result).outcome.kind = "exploration"
  /\ Len(store.discoveries) = 2
  /\ Len(store.threads) = 2
  /\ store.threads[2].discovery_id = Some(2)
  /\ store.discoveries[2] = Get(result).outcome.discovery
  /\ store.discoveries[1].tags = store.discoveries[2].tags
  /\ store.discoveries[1].gradient # store.discoveries[2].gradient
  /\ session.exploration_index = 2

(* stagnation *)

\* a stagnation turn made with the callbacks of execute_turn returns
StagnationReturns ==
  /\ TurnReturns
  /\ Get(result').outcome.kind = "stagnation"
  /\ ~IsNone(Get(result').outcome.hook.id)

\* the clocks with steps left
Unfinished(clocks) == {i \in DOMAIN clocks : clocks[i].steps_done < clocks[i].steps_total}

\* C38: each stagnation turn chooses exactly one action, choosing
\* escalate-clock only when an unfinished clock exists and
\* thread-consequence only when an open thread exists; it increases
\* stagnation_index by exactly 1, sets the pacing tag to tension, emits one
\* new open high-urgency thread, and an escalation advances the first
\* unfinished clock by one step without exceeding its total.
C38_StagnationStep ==
  [][StagnationReturns =>
       LET action == Get(result').outcome.action
           hook == Get(result').outcome.hook
           k == SetMin(Unfinished(store.clocks))
       IN /\ action \in {"opportunity", "escalate_clock", "thread_consequence"}
          /\ (action = "escalate_clock" => Unfinished(store.clocks) # {})
          /\ (action = "thread_consequence" =>
                \E i \in DOMAIN store.threads : store.threads[i].status = "open")
          /\ session'.stagnation_index = session.stagnation_index + 1
          /\ session'.exploration_index = session.exploration_index
          /\ session'.pacing_tag = "tension"
          /\ store'.threads = Append(store.threads, hook)
          /\ hook.status = "open"
          /\ hook.urgency = "high"
          /\ store'.discoveries = store.discoveries
          /\ Len(store'.clocks) = Len(store.clocks)
          /\ IF action = "escalate_clock"
             THEN /\ store'.clocks[k].steps_done = store.clocks[k].steps_done + 1
                  /\ store'.clocks[k].steps_done <= store.clocks[k].steps_total
                  /\ store'.clocks[k].steps_total = store.clocks[k].steps_total
                  /\ \A i \in DOMAIN store.clocks \ {k} : store'.clocks[i] = store.clocks[i]
             ELSE store'.clocks = store.clocks]_vars

\* an escalation has passed over the finished first clock and brought the
\* second one to its total
C38_Witness ==
  /\ result # None
  /\ Get(result).outcome.kind = "stagnation"
  /\ Get(result).outcome.action = "escalate_clock"
  /\ ~IsNone(Get(result).outcome.hook.id)
  /\ Len(store.clocks) = 2
  /\ store.clocks[2].steps_done = store.clocks[2].steps_total
  /\ session.stagnation_index >= 1
  /\ session.pacing_tag = "tension"
  /\ store.threads[Len(store.threads)] = Get(result).outcome.hook

(* ---------------------------- llm/client.py ---------------------------- *)
\* `while attempts < 3`: the attempts of one request
MaxAttempts == 3

\* what POST /api/chat gives to one attempt.  The content is None where
\* requests raises or the message holds no text.  A text is its form and the
\* JSON value in it: "object" (a JSON object and nothing else), "wrapped" (a
\* JSON object with prose around it), "array" (a JSON list, no braces),
\* "prose" (no JSON), "braces" (braces around text that is no JSON)
Reply(content) == [content |-> content]
Content(form, payload) == [form |-> form, payload |-> payload]

\* _chat: the content, raised where the request fails or has no text
_chat(reply) ==
  IF IsNone(reply.content)
  THEN [raised |-> TRUE, error |-> "Invalid response from Ollama.", content |-> None]
  ELSE [raised |-> FALSE, error |-> "", content |-> reply.content]

\* _extract_json: json.loads of the text when that gives a dict, else
\* json.loads of the slice from the first "{" to the last "}"
_extract_json(content) ==
  IF content.form = "object"
  THEN [raised |-> FALSE, error |-> "", data |-> content.payload]
  ELSE IF content.form = "wrapped"
  THEN [raised |-> FALSE, error |-> "", data |-> content.payload]
  ELSE IF content.form = "braces"
  THEN [raised |-> TRUE, error |-> "Expecting property name", data |-> None]
  ELSE [raised |-> TRUE, error |-> "Failed to parse JSON intent.", data |-> None]

\* Intent.model_validate: the action type is one of the literals and there is
\* no key the schema does not have
IntentValid(payload) ==
  /\ payload.kind = "intent"
  /\ payload.action_type \in ActionTypes
  /\ ~payload.extra

\* TurnEnvelope.model_validate
EnvelopeValid(payload) ==
  /\ payload.kind = "envelope"
  /\ payload.mode \in {"gm", "ooc", "dev"}
  /\ payload.confidence \in {"high", "medium", "low"}
  /\ ~payload.extra

\* the value parsed from the JSON data d, validated by valid and built by value
Validated(d, valid, value) ==
  IF d.raised THEN [raised |-> TRUE, error |-> d.error, value |-> None]
  ELSE IF ~valid THEN [raised |-> TRUE, error |-> "validation error", value |-> None]
  ELSE [raised |-> FALSE, error |-> "", value |-> Some(value)]

_parse_intent(content) ==
  Validated(_extract_json(content),
            ~_extract_json(content).raised /\ IntentValid(_extract_json(content).data),
            IF _extract_json(content).raised THEN None
            ELSE Intent(_extract_json(content).data.action_type, "", "", ""))

_parse_turn_envelope(content) ==
  Validated(_extract_json(content),
            ~_extract_json(content).raised /\ EnvelopeValid(_extract_json(content).data),
            IF _extract_json(content).raised THEN None
            ELSE [mode |-> _extract_json(content).data.mode,
                  protocol_id |-> _extract_json(content).data.protocol_id,
                  confidence |-> _extract_json(content).data.confidence,
                  council |-> _extract_json(content).data.council])

_fallback_intent ==
  Intent("ask_clarifying_question", "Could you clarify your intended action?", "", "")

\* what a call of the client leaves: returned value or raised error, the
\* attempts made and the last error text
Called(raised, value, attempts, last_error) ==
  [raised |-> raised, value |-> value, attempts |-> attempts,
   last_error |-> last_error]

\* one attempt of extract_intent: _chat, then _parse_intent
IntentAttempt(reply) ==
  IF _chat(reply).raised
  THEN [raised |-> TRUE, error |-> _chat(reply).error, value |-> None]
  ELSE _parse_intent(Get(_chat(reply).content))

RECURSIVE IntentLoop(_, _, _)
\* the while loop of extract_intent with `attempts` made so far
IntentLoop(replies, attempts, last_error) ==
  IF ~(attempts < MaxAttempts)
  THEN Called(FALSE, Some(_fallback_intent), attempts, last_error)
  ELSE IF IntentAttempt(replies[attempts + 1]).raised
  THEN IntentLoop(replies, attempts + 1, IntentAttempt(replies[attempts + 1]).error)
  ELSE Called(FALSE, IntentAttempt(replies[attempts + 1]).value, attempts + 1,
              last_error)

\* extract_intent, the service answering the attempts with replies
extract_intent(replies) == IntentLoop(replies, 0, "")

\* faulty variant of CouncilRejected: council notes are accepted anywhere
CouncilRejected_never(parsed, context_payload) == FALSE

\* the envelope carries council notes outside dev mode with a confidence
\* other than low
CouncilRejected(parsed, context_payload) ==
  /\ ~IsNone(parsed.council)
  /\ ~context_payload.dev_mode_enabled
  /\ parsed.confidence # "low"

\* one attempt of generate_turn_envelope: _chat, _parse_turn_envelope, then
\* the council check
EnvelopeAttempt(reply, context_payload) ==
  IF _chat(reply).raised
  THEN [raised |-> TRUE, error |-> _chat(reply).error, value |-> None]
  ELSE IF _parse_turn_envelope(Get(_chat(reply).content)).raised
  THEN _parse_turn_envelope(Get(_chat(reply).content))
  ELSE IF CouncilRejected(Get(_parse_turn_envelope(Get(_chat(reply).content)).value),
                          context_payload)
  THEN [raised |-> TRUE,
        error |-> "Council notes only allowed in dev mode or low confidence.",
        value |-> None]
  ELSE _parse_turn_envelope(Get(_chat(reply).content))

RECURSIVE EnvelopeLoop(_, _, _, _)
\* the while loop of generate_turn_envelope; LLMClientError after it
EnvelopeLoop(replies, context_payload, attempts, last_error) ==
  IF ~(attempts < MaxAttempts)
  THEN Called(TRUE, None, attempts, "Failed to build TurnEnvelope JSON.")
  ELSE IF EnvelopeAttempt(replies[attempts + 1], context_payload).raised
  THEN EnvelopeLoop(replies, context_payload, attempts + 1,
                    EnvelopeAttempt(replies[attempts + 1], context_payload).error)
  ELSE Called(FALSE, EnvelopeAttempt(replies[attempts + 1], context_payload).value,
              attempts + 1, last_error)

\* generate_turn_envelope, the service answering the attempts with replies
generate_turn_envelope(replies, context_payload) ==
  EnvelopeLoop(replies, context_payload, 0, "")

(* ------------------------- client specification ------------------------ *)
\* the JSON objects the service writes
IntentPayloads ==
  {[kind |-> "intent", action_type |-> a, extra |-> x] :
     a \in {"attack", "dance"}, x \in BOOLEAN}

EnvelopePayloads ==
  {[kind |-> "envelope", mode |-> m, protocol_id |-> "PROTO_ROUTINE",
    confidence |-> c, council |-> k, extra |-> FALSE] :
     m \in {"gm", "narrator"}, c \in {"high", "low"},
     k \in {None, Some("Two advisors disagree.")}}

\* the replies to an attempt: a failed request, texts without a JSON object,
\* and a JSON object alone or in prose
Replies(payloads) ==
  {Reply(None)}
  \cup {Reply(Some(Content(f, None))) : f \in {"array", "prose", "braces"}}
  \cup {Reply(Some(Content(f, p))) : f \in {"object", "wrapped"}, p \in payloads}

\* the replies the service gives to the attempts of one request
ReplyRuns(payloads) == [1..MaxAttempts -> Replies(payloads)]

\* a call of the client: the function, its context, the replies its attempts
\* got and what it left
Request(fn, context_payload, replies, called) ==
  [fn |-> fn, context |-> context_payload, replies |-> replies, called |-> called]

NoContext == [dev_mode_enabled |-> FALSE]

InitClient ==
  /\ request = None
  /\ status_ledger = None
  /\ status_call = None
  /\ fight = None
  /\ world = None
  /\ memory = None
  /\ InitLedgerIdle
  /\ session = NewSession(0, "Space", DevOff, "", NoScene)
  /\ character = NewCharacter(None, None)
  /\ store = NewStore(<<>>)
  /\ dice = None
  /\ result = None
  /\ decision = None
  /\ InitRouteIdle

ClientFrame ==
  /\ UNCHANGED ledgerVars
  /\ UNCHANGED <<status_ledger, status_call, fight, world, memory>>
  /\ UNCHANGED turnVars
  /\ UNCHANGED routeVars

\* the call made c.attempts attempts: the replies they got are kept
ClientCalled(fn, context_payload, replies, c) ==
  request' = Some(Request(fn, context_payload, SubSeq(replies, 1, c.attempts), c))

\* OllamaClient.extract_intent(player_text, context)
ExtractIntent ==
  /\ IsNone(request)
  /\ \E replies \in ReplyRuns(IntentPayloads) :
       ClientCalled("extract_intent", NoContext, replies, extract_intent(replies))
  /\ ClientFrame

\* OllamaClient.generate_turn_envelope(player_text, context)
GenerateTurnEnvelope ==
  /\ IsNone(request)
  /\ \E replies \in ReplyRuns(EnvelopePayloads), dev \in BOOLEAN :
       ClientCalled("generate_turn_envelope", [dev_mode_enabled |-> dev], replies,
                    generate_turn_envelope(replies, [dev_mode_enabled |-> dev]))
  /\ ClientFrame

NextClient == ExtractIntent \/ GenerateTurnEnvelope

SpecClient == InitClient /\ [][NextClient]_vars


(* ------------------------------ C39 ------------------------------------ *)
\* the text of reply parses under the schema of fn
Parses(fn, reply) ==
  /\ ~_chat(reply).raised
  /\ IF fn = "extract_intent"
     THEN ~_parse_intent(Get(reply.content)).raised
     ELSE ~_parse_turn_envelope(Get(reply.content)).raised

\* what the text of reply parses to
ParsedValue(fn, reply) ==
  IF fn = "extract_intent"
  THEN _parse_intent(Get(reply.content)).value
  ELSE _parse_turn_envelope(Get(reply.content)).value

\* the reply parses to an envelope with council notes, outside dev mode and
\* with a confidence other than low
CouncilOutOfPlace(r, reply) ==
  /\ r.fn = "generate_turn_envelope"
  /\ Parses(r.fn, reply)
  /\ ~IsNone(Get(reply.content).payload.council)
  /\ ~r.context.dev_mode_enabled
  /\ Get(reply.content).payload.confidence # "low"

\* the call r made at most three attempts, none after an attempt that
\* stopped it, and left that attempt's value or, after three attempts that
\* did not, the fallback intent (extract_intent) or an error
\* (generate_turn_envelope)
RetriesUntil(r, stops(_)) ==
  /\ r.called.attempts = Len(r.replies)
  /\ Len(r.replies) \in 1..3
  /\ \A i \in 1..(Len(r.replies) - 1) : ~stops(r.replies[i])
  /\ stops(r.replies[Len(r.replies)]) =>
       /\ ~r.called.raised
       /\ r.called.value = ParsedValue(r.fn, r.replies[Len(r.replies)])
  /\ ~stops(r.replies[Len(r.replies)]) =>
       /\ Len(r.replies) = 3
       /\ r.fn = "extract_intent" =>
            /\ ~r.called.raised
            /\ r.called.value = Some(Intent("ask_clarifying_question",
                                            "Could you clarify your intended action?",
                                            "", ""))
       /\ r.fn = "generate_turn_envelope" =>
            /\ r.called.raised
            /\ IsNone(r.called.value)

\* C39 as stated: extract_intent and generate_turn_envelope make at most 3
\* attempts and stop at the first output that parses; after the third failure
\* extract_intent returns the fallback ask_clarifying_question intent without
\* raising and generate_turn_envelope raises a client error.  Violated: an
\* envelope that parses but carries council notes outside dev mode with a
\* confidence other than low is retried.
C39_StopsAtFirstParse ==
  ~IsNone(request) =>
    RetriesUntil(Get(request), LAMBDA reply : Parses(Get(request).fn, reply))

\* C39: both calls make at most 3 attempts and stop at the first output that
\* parses and, for generate_turn_envelope, does not carry council notes
\* outside dev mode with a confidence other than low; after the third failed
\* attempt extract_intent returns the fallback ask_clarifying_question intent
\* without raising and generate_turn_envelope raises a client error.
C39_BoundedRetries ==
  ~IsNone(request) =>
    RetriesUntil(Get(request),
                 LAMBDA reply : /\ Parses(Get(request).fn, reply)
                                /\ ~CouncilOutOfPlace(Get(request), reply))

\* generate_turn_envelope retried an envelope that parsed with council notes
\* out of place and returned the second attempt's envelope
C39_Witness ==
  /\ ~IsNone(request)
  /\ Get(request).fn = "generate_turn_envelope"
  /\ Len(Get(request).replies) = 2
  /\ CouncilOutOfPlace(Get(request), Get(request).replies[1])
  /\ ~Get(request).called.raised
  /\ Get(request).called.attempts = 2
  /\ Get(Get(request).called.value).mode = "gm"

====
